---- MODULE Spec2Model ----
(***************************************************************************)
(* VibeCheck scan engine: the scan registry and HTTP surface (server.ts),  *)
(* the orchestrator pipeline with its whole-scan timeout (orchestrator),    *)
(* the crawler's progress arithmetic and the report builder.                *)
(*                                                                          *)
(* JavaScript runs each callback to completion: a handler, a timer callback *)
(* or the code between two awaits is one action.  Promise reactions queued  *)
(* by an action run before any other handler or timer (MicrotaskPending).   *)
(* Strings that are concatenated by the code are sequences of tokens, so    *)
(* that a concatenation is a real concatenation.                            *)
(***************************************************************************)
EXTENDS Integers, Sequences, FiniteSets, TLC

(* ---------------- bounds of the model ---------------- *)
MaxScans == 2
MaxDiscovered == 2
MaxListeners == 1
MaxBugs == 1
MaxRbPages == 2
MaxRbBugs == 3
MaxPgBugs == 3
MaxPgCalls == 2
MaxCacheOps == 4
MaxPathLen == 3
MaxQueryLen == 2
MaxSiteUrls == 3
MaxHrefs == 3
MaxSubscribers == 3
MaxPushes == 1
MaxFeEvents == 4

(* ---------------- program constants ---------------- *)
maxPages == 20
CrawlCap == 90
CrawlShare == 30
TestShare == 50
PromptsProgress == 85
FallbackProgress == 90
ReportProgress == 95
CompleteProgress == 100
maxConcurrency == 3
MAX_LINKS == 50

SEVERITY_ORDER == [critical |-> 0, warning |-> 1, info |-> 2]

ALL_BUG_TYPES ==
  <<"console-error", "network-error", "broken-link", "broken-image",
    "accessibility", "responsive">>

\* The testers in the order testPage runs them, by the name given to runTesterSafe.
Testers ==
  <<"console-errors", "network", "links", "images", "accessibility", "responsive">>

\* The defect type each tester emits.
TesterType == ALL_BUG_TYPES

\* The severity of the defect each tester reports in this model (one of those the
\* tester can assign).
TesterSeverity == <<"critical", "critical", "warning", "warning", "info", "warning">>

SCAN_TIMEOUT_MESSAGE == <<"Scan timed out after 5 minutes">>
FALLBACK_REASON == <<"AI-powered prompts temporarily unavailable">>

(* ---------------- helpers ---------------- *)
Range(s) == {s[i] : i \in DOMAIN s}

Min(a, b) == IF a < b THEN a ELSE b

RECURSIVE SumSeq(_)
SumSeq(s) == IF s = <<>> THEN 0 ELSE Head(s) + SumSeq(Tail(s))

RECURSIVE Flatten(_)
Flatten(ss) == IF ss = <<>> THEN <<>> ELSE Head(ss) \o Flatten(Tail(ss))

\* Math.round of the non-negative rational num/den (halves round up).
MathRound(num, den) == (2 * num + den) \div (2 * den)

(* ---------------- report builder ---------------- *)
NoId == 0
NoPrompt == [tier |-> "none"]

\* `${bug.type}::${bug.title}::${bug.details}`
bugFingerprint(bug) == <<bug.type>> \o <<"::">> \o bug.title \o <<"::">> \o bug.details

\* The loop of buildReport over one page's bugs: seen is seenFingerprints on entry,
\* next the number of identifiers issued so far.  Returns the kept bugs (in
\* discovery order, identifiers assigned), the new seen set and counter.
RECURSIVE DedupPage(_, _, _)
DedupPage(bugs, seen, next) ==
  IF bugs = <<>> THEN [unique |-> <<>>, seen |-> seen, next |-> next]
  ELSE LET bug == Head(bugs)
           fp == bugFingerprint(bug)
       IN IF fp \in seen
          THEN DedupPage(Tail(bugs), seen, next)
          ELSE LET rest == DedupPage(Tail(bugs), seen \cup {fp}, next + 1)
               IN [rest EXCEPT !.unique = <<[bug EXCEPT !.id = next + 1]>> \o @]

\* uniqueBugs.sort(...) with a sort that puts later equal elements first.
SortBySeverity_unstable(bugs) ==
  LET rank(n) == SelectSeq(bugs, LAMBDA b : SEVERITY_ORDER[b.severity] = n)
      rev(s) == [i \in DOMAIN s |-> s[Len(s) + 1 - i]]
  IN rev(rank(0)) \o rev(rank(1)) \o rev(rank(2))


\* uniqueBugs.sort((a, b) => SEVERITY_ORDER[a.severity] - SEVERITY_ORDER[b.severity]):
\* Array.prototype.sort is stable, so the result is the bugs of rank 0, then 1, then 2,
\* each group in its original order.
SortBySeverity(bugs) ==
  LET rank(n) == SelectSeq(bugs, LAMBDA b : SEVERITY_ORDER[b.severity] = n)
  IN rank(0) \o rank(1) \o rank(2)

\* buildReport with seenFingerprints created inside the per-page callback.
RECURSIVE ProcessPages_perPageSeen(_, _, _)
ProcessPages_perPageSeen(pages, seen, next) ==
  IF pages = <<>> THEN <<>>
  ELSE LET page == Head(pages)
           d == DedupPage(page.bugs, {}, next)
       IN <<[page EXCEPT !.bugs = SortBySeverity(d.unique)]>>
            \o ProcessPages_perPageSeen(Tail(pages), {}, d.next)

\* pages.map(...) of buildReport: seen is seenFingerprints, shared by all pages.
RECURSIVE ProcessPages(_, _, _)
ProcessPages(pages, seen, next) ==
  IF pages = <<>> THEN <<>>
  ELSE LET page == Head(pages)
           d == DedupPage(page.bugs, seen, next)
       IN <<[page EXCEPT !.bugs = SortBySeverity(d.unique)]>>
            \o ProcessPages(Tail(pages), d.seen, d.next)

\* buildSummary with the break statements of its switch missing.
buildSummary_fallthrough(bugs) ==
  [totalBugs |-> Len(bugs),
   critical |-> Len(SelectSeq(bugs, LAMBDA b : b.severity = "critical")),
   warnings |-> Len(SelectSeq(bugs, LAMBDA b : b.severity \in {"critical", "warning"})),
   info |-> Len(bugs),
   byType |-> [t \in Range(ALL_BUG_TYPES) |->
                 Len(SelectSeq(bugs, LAMBDA b : b.type = t))]]

buildSummary(bugs) ==
  [totalBugs |-> Len(bugs),
   critical |-> Len(SelectSeq(bugs, LAMBDA b : b.severity = "critical")),
   warnings |-> Len(SelectSeq(bugs, LAMBDA b : b.severity = "warning")),
   info |-> Len(SelectSeq(bugs, LAMBDA b : b.severity = "info")),
   byType |-> [t \in Range(ALL_BUG_TYPES) |->
                 Len(SelectSeq(bugs, LAMBDA b : b.type = t))]]

\* uuidBase is the number of identifiers uuidv4 has issued before the call.
buildReport(url, pages, uuidBase) ==
  LET processedPages == ProcessPages(pages, {}, uuidBase)
      allBugs == Flatten([i \in DOMAIN processedPages |-> processedPages[i].bugs])
  IN [url |-> url,
      pagesFound |-> Len(pages),
      pages |-> processedPages,
      summary |-> buildSummary(allBugs),
      warnings |-> <<>>]

(* ---------------- HTTP surface: URL validation ---------------- *)
\* A request body's url: absent, or a parsed URL (protocol, hostname labels, each
\* label a sequence of characters).
NoUrl == [protocol |-> "", hostname |-> <<>>]

RequestUrls ==
  {NoUrl,
   [protocol |-> "https:", hostname |-> << <<"e", "x">>, <<"c", "o", "m">> >>],
   [protocol |-> "ftp:", hostname |-> << <<"e", "x">>, <<"c", "o", "m">> >>],
   [protocol |-> "http:", hostname |-> << <<"e", "r", "i", "k">> >>],
   [protocol |-> "http:", hostname |-> << <<"e", "x">>, <<"c">> >>]}

\* TRUE iff validateUrl returns null (no validation error).
validateUrl(url) ==
  /\ url.protocol \in {"http:", "https:"}
  /\ LET parts == url.hostname
     IN ~(Len(parts) < 2 \/ Len(parts[Len(parts)]) < 2)

(* ---------------- scan registry ---------------- *)
NoReport == [url |-> NoUrl, pagesFound |-> 0, pages |-> <<>>,
             summary |-> buildSummary(<<>>), warnings |-> <<"none">>]
NoError == <<>>

\* hasRunning without its loop: never finds a running scan.
hasRunning_never(sc) == FALSE

hasRunning(sc) == \E id \in DOMAIN sc : sc[id].status = "running"

\* A race whose later settlement replaces the earlier one.
SettleRace_lastWins(current, outcome) == outcome

\* A race that only its first promise can settle (the timer's rejection is lost).
SettleRace_onlyResolves(current, outcome) ==
  IF current = "pending" /\ outcome = "resolved" THEN outcome ELSE current

\* Promise.race in runScan: a promise settles once, the first settlement wins.

SettleRace(current, outcome) == IF current = "pending" THEN outcome ELSE current

(* ---------------- orchestrator helpers ---------------- *)
Event(phase, progress) == [phase |-> phase, progress |-> progress]

\* Math.min(90, Math.round((pages.length / maxPages) * 90)) in the crawler
crawlProgress(found) == Min(CrawlCap, MathRound(found * CrawlCap, maxPages))

\* Math.round(event.progress * 0.3) in runScanInner's adapter
adaptCrawlProgress(progress) == MathRound(progress * CrawlShare, 100)

\* 30 + Math.round(((i + 1) / discoveredPages.length) * 50), i counted from 0
testProgress(i, n) == CrawlShare + MathRound((i + 1) * TestShare, n)

\* The progress the page driver puts on its 'Tested' event.
testedProgress(i, n) == 0

TesterOutcomes == {"ok", "threw", "timedOut"}
DriverFailures == {"openFailed", "closeFailed"}

\* runTesterSafe without its catch: the tester's failure leaves testPage.
runTesterSafe_rethrows(outcome, result) ==
  IF outcome = "ok" THEN [threw |-> FALSE, bugs |-> result]
  ELSE [threw |-> TRUE, bugs |-> <<>>]

\* try { return await Promise.race([fn(), timeout]) } catch { return [] }
runTesterSafe(outcome, result) ==
  IF outcome = "ok" THEN [threw |-> FALSE, bugs |-> result]
  ELSE [threw |-> FALSE, bugs |-> <<>>]

\* What tester k can return for page number page: nothing, or one defect.
TesterResults(k, page) ==
  {<<>>,
   << [id |-> NoId, type |-> TesterType[k], severity |-> TesterSeverity[k],
       title |-> <<"a">>, details |-> <<"b">>, page |-> page, fixPrompt |-> NoPrompt] >>}

(* ---------------- prompt cache ---------------- *)
\* createHash('sha256').update(details).digest('hex').slice(0, 12): one token per
\* text; the texts of the model are few enough to have distinct digests.
sha12(details) == <<"sha(">> \o details \o <<")">>

\* `${type}::${title}::${hash}`
cacheKey(type, title, details) == <<type, "::">> \o title \o <<"::">> \o sha12(details)

KeyOf(bug) == cacheKey(bug.type, bug.title, bug.details)

\* let cache: CacheData | null = null
NoCache == [loaded |-> FALSE, data |-> <<>>]

\* The backing file: missing, unparsable, or the JSON of a CacheData.
NoFile == [state |-> "missing", data |-> <<>>]
CorruptFile == [state |-> "corrupt", data |-> <<>>]

FileOf(data) == [state |-> "ok", data |-> data]

\* loadCache: the in-memory object if there is one, else the parsed file, else {}.
loadCache(cache, file) ==
  IF cache.loaded THEN cache
  ELSE IF file.state = "ok" THEN [loaded |-> TRUE, data |-> file.data]
  ELSE [loaded |-> TRUE, data |-> <<>>]

\* data[key]?.prompt, NoPrompt standing for undefined
getCachedPrompt_memoryOnly(cache, file, key) ==
  IF cache.loaded /\ key \in DOMAIN cache.data THEN cache.data[key] ELSE NoPrompt

getCachedPrompt(cache, file, key) ==
  LET data == loadCache(cache, file).data
  IN IF key \in DOMAIN data THEN data[key] ELSE NoPrompt

\* data[key] = { prompt, createdAt }
PutEntry(data, key, prompt) ==
  [k \in DOMAIN data \cup {key} |-> IF k = key THEN prompt ELSE data[k]]

\* saveCache: writeFileSync of the whole object; a failed write is logged and
\* leaves the file as it was.
saveCache_skipped(cache, file, writeOk) == file

saveCache(cache, file, writeOk) ==
  IF cache.loaded /\ writeOk THEN FileOf(cache.data) ELSE file

\* setCachedPrompt(key, prompt): the new in-memory cache and file.
setCachedPrompt(cache, file, key, prompt, writeOk) ==
  LET data == loadCache(cache, file)
      next == [data EXCEPT !.data = PutEntry(@, key, prompt)]
  IN [cache |-> next, file |-> saveCache(next, file, writeOk)]

\* clearCache
clearCache == [loaded |-> TRUE, data |-> <<>>]

(* ---------------- prompt generator ---------------- *)
\* The page the scan starts from has path '/'.
RootPage == 1

\* getPagePath(url): 'home' for the root path, else the path
getPagePath(page) == IF page = RootPage THEN <<"home">> ELSE <<"path", page>>

\* TEMPLATES[bug.type](bug): fixed text around the page path and the title or the
\* details of the defect, by type.
TemplateHint(bug) ==
  [tier |-> "template", type |-> bug.type, path |-> getPagePath(bug.page),
   about |-> IF bug.type \in {"console-error", "broken-image"} THEN bug.details
             ELSE IF bug.type = "accessibility" THEN bug.title \o bug.details
             ELSE bug.title]

generateTemplatePrompts(bugs) ==
  [i \in DOMAIN bugs |-> [bugs[i] EXCEPT !.fixPrompt = TemplateHint(bugs[i])]]

\* What the external generator can answer for one batch: a JSON array with one
\* string per defect, one string too few or too many, an array whose first string
\* is empty, text without an array, or a failed call.
ApiReplies == {"full", "short", "long", "blank", "noJson", "throws"}

\* The strings of the array in a reply of the given kind to a batch of n defects.
ApiPrompts(kind, page, n) ==
  LET len == IF kind = "short" THEN n - 1 ELSE IF kind = "long" THEN n + 1 ELSE n
  IN [i \in 1..len |-> IF kind = "blank" /\ i = 1 THEN NoPrompt
                       ELSE [tier |-> "ai", page |-> page, n |-> i]]

\* bugsByPage: the pages in order of first appearance
RECURSIVE PagesInOrder(_, _)
PagesInOrder(bugs, seen) ==
  IF bugs = <<>> THEN <<>>
  ELSE IF Head(bugs).page \in seen THEN PagesInOrder(Tail(bugs), seen)
  ELSE <<Head(bugs).page>> \o PagesInOrder(Tail(bugs), seen \cup {Head(bugs).page})

\* One round of generateWithApi's loop: the result for the batch of one page.
BatchResult_noTemplate(pageBugs, kind) ==
  IF kind = "noJson" THEN generateTemplatePrompts(pageBugs)
  ELSE LET prompts == ApiPrompts(kind, pageBugs[1].page, Len(pageBugs))
       IN [i \in DOMAIN pageBugs |->
             [pageBugs[i] EXCEPT !.fixPrompt =
                IF i \in DOMAIN prompts THEN prompts[i] ELSE NoPrompt]]

BatchResult(pageBugs, kind) ==
  IF kind = "noJson" THEN generateTemplatePrompts(pageBugs)
  ELSE LET prompts == ApiPrompts(kind, pageBugs[1].page, Len(pageBugs))
       IN [i \in DOMAIN pageBugs |->
             [pageBugs[i] EXCEPT !.fixPrompt =
                IF i \in DOMAIN prompts /\ prompts[i] # NoPrompt THEN prompts[i]
                ELSE TemplateHint(pageBugs[i])]]

\* generateWithApi(apiKey, bugs): the batches are answered as replies says, page by
\* page; a failed call rejects the whole function.
generateWithApi(bugs, replies) ==
  LET pages == PagesInOrder(bugs, {})
  IN [threw |-> \E j \in DOMAIN pages : replies[pages[j]] = "throws",
      bugs |-> Flatten([j \in DOMAIN pages |->
                 BatchResult(SelectSeq(bugs, LAMBDA b : b.page = pages[j]),
                             replies[pages[j]])])]

\* mergeResults(cachedBugs, newBugs, originalOrder); hit[i] says cachedBugs[i] is
\* not null.
mergeResults(cachedBugs, hit, newBugs) ==
  [i \in DOMAIN cachedBugs |->
     IF hit[i] THEN cachedBugs[i]
     ELSE newBugs[Len(SelectSeq(SubSeq(hit, 1, i), LAMBDA h : ~h))]]

\* for (const bug of newBugs) setCachedPrompt(key, bug.fixPrompt): the entries in
\* memory after all writes.
RECURSIVE WriteAll_aiOnly(_, _)
WriteAll_aiOnly(data, newBugs) ==
  IF newBugs = <<>> THEN data
  ELSE WriteAll_aiOnly(IF Head(newBugs).fixPrompt.tier = "ai"
                       THEN PutEntry(data, KeyOf(Head(newBugs)), Head(newBugs).fixPrompt)
                       ELSE data,
                       Tail(newBugs))

RECURSIVE WriteAll(_, _)
WriteAll(data, newBugs) ==
  IF newBugs = <<>> THEN data
  ELSE WriteAll(PutEntry(data, KeyOf(Head(newBugs)), Head(newBugs).fixPrompt),
                Tail(newBugs))

\* const uncachedBugs = bugs.filter((_, i) => cachedBugs[i] === null)
UncachedBugs(bugs, cache, file) ==
  SelectSeq(bugs, LAMBDA b : getCachedPrompt(cache, file, KeyOf(b)) = NoPrompt)

\* The pages of the batches generateWithApi sends for these defects.
BatchPages(bugs, cache, file) ==
  {b.page : b \in Range(UncachedBugs(bugs, cache, file))}

\* generateFixPrompts(bugs) on the given cache and file: the result, the locals
\* uncachedBugs and the cache and file it leaves.  apiKey says ANTHROPIC_API_KEY is
\* set, replies what the external generator answers per page, and saved is the
\* number of the last setCachedPrompt whose file write succeeded (0: none).
generateFixPrompts(bugs, cache, file, apiKey, replies, saved) ==
  IF bugs = <<>>
  THEN [bugs |-> bugs, usedFallback |-> FALSE, cacheHits |-> 0, cacheMisses |-> 0,
        uncachedBugs |-> <<>>, cache |-> cache, file |-> file]
  ELSE
    LET loaded == loadCache(cache, file)
        cached == [i \in DOMAIN bugs |-> getCachedPrompt(cache, file, KeyOf(bugs[i]))]
        hit == [i \in DOMAIN bugs |-> cached[i] # NoPrompt]
        cachedBugs == [i \in DOMAIN bugs |-> [bugs[i] EXCEPT !.fixPrompt = cached[i]]]
        cacheHits == Len(SelectSeq(hit, LAMBDA h : h))
        uncachedBugs == UncachedBugs(bugs, cache, file)
        api == generateWithApi(uncachedBugs, replies)
        useApi == apiKey /\ ~api.threw
        newBugs == IF useApi THEN api.bugs ELSE generateTemplatePrompts(uncachedBugs)
        after == [loaded EXCEPT !.data = WriteAll(@, newBugs)]
        fileAfter == IF saved = 0 THEN file
                     ELSE FileOf(WriteAll(loaded.data,
                                          SubSeq(newBugs, 1, Min(saved, Len(newBugs)))))
    IN IF uncachedBugs = <<>>
       THEN [bugs |-> cachedBugs, usedFallback |-> FALSE, cacheHits |-> cacheHits,
             cacheMisses |-> 0, uncachedBugs |-> <<>>, cache |-> loaded, file |-> file]
       ELSE [bugs |-> mergeResults(cachedBugs, hit, newBugs),
             usedFallback |-> ~useApi, cacheHits |-> cacheHits,
             cacheMisses |-> Len(uncachedBugs), uncachedBugs |-> uncachedBugs,
             cache |-> after, file |-> fileAfter]

\* "Map prompts back to page reports": page p takes the next Len(bugs) results.
RECURSIVE mapBack(_, _)
mapBack(pageReports, promptBugs) ==
  IF pageReports = <<>> THEN <<>>
  ELSE LET page == Head(pageReports)
           n == Len(page.bugs)
       IN <<[page EXCEPT !.bugs = SubSeq(promptBugs, 1, n)]>>
            \o mapBack(Tail(pageReports), SubSeq(promptBugs, n + 1, Len(promptBugs)))

(* ---------------- crawler: normalizeUrl ---------------- *)
\* A URL string is a sequence of tokens: "O" for the scheme and host
\* ("https://h"), then the characters "/", "a", "?" and "#".  A string that does
\* not start with "O" has no scheme: new URL(url) throws on it.
IsAbsolute(url) == url # <<>> /\ url[1] = "O"

\* The position of the first tok in s, or Len(s) + 1.
IndexOf(s, tok) ==
  IF \E i \in DOMAIN s : s[i] = tok
  THEN CHOOSE i \in DOMAIN s : s[i] = tok /\ \A j \in 1..(i - 1) : s[j] # tok
  ELSE Len(s) + 1

\* new URL(url): pathname ('/' when the string has no path), search with its '?'
\* (empty when the string has none) and hash with its '#'.
ParseUrl(url) ==
  LET rest == Tail(url)
      h == IndexOf(rest, "#")
      beforeHash == SubSeq(rest, 1, h - 1)
      q == IndexOf(beforeHash, "?")
      path == SubSeq(beforeHash, 1, q - 1)
  IN [pathname |-> IF path = <<>> THEN <<"/">> ELSE path,
      search |-> SubSeq(beforeHash, q, Len(beforeHash)),
      hash |-> SubSeq(rest, h, Len(rest))]

\* parsed.toString() after parsed.hash = ''
HrefWithoutHash(parsed) == <<"O">> \o parsed.pathname \o parsed.search

EndsWithSlash(s) == s # <<>> /\ s[Len(s)] = "/"

DropLast(s) == SubSeq(s, 1, Len(s) - 1)

normalizeUrl(url) ==
  IF ~IsAbsolute(url) THEN url
  ELSE LET parsed == ParseUrl(url)
           href == HrefWithoutHash(parsed)
           first == IF EndsWithSlash(href) /\ parsed.pathname # <<"/">>
                    THEN DropLast(href) ELSE href
       IN IF parsed.pathname = <<"/">> /\ EndsWithSlash(first)
          THEN DropLast(first) ELSE first

(* ---------------- crawler: crawlPages ---------------- *)
\* if (!visited.has(url)) { visited.add(url); pages.push({ url, title, loadTime }) }
recordPage_unchecked(seen, found, url) ==
  [visited |-> seen \cup {url}, pages |-> Append(found, url)]

recordPage(seen, found, url) ==
  IF url \notin seen
  THEN [visited |-> seen \cup {url}, pages |-> Append(found, url)]
  ELSE [visited |-> seen, pages |-> found]

\* The start URL of the crawl, and a URL whose host is not the start URL's.
startUrl == 1

ForeignUrl == 0

\* new URL(url).hostname
hostname(url) == IF url = ForeignUrl THEN "other" ELSE "seed"

\* shouldFollowUrl(url, baseUrl), for http(s) URLs without a skipped extension:
\* parsedUrl.hostname !== parsedBase.hostname rejects the URL.
shouldFollowUrl(url, baseUrl) == hostname(url) = hostname(baseUrl)

\* transformRequestFunction over the links of a page: the normalized URLs that
\* shouldFollowUrl accepts and that are not visited are handed to the request
\* queue.
linksToFollow(links, seen) ==
  {l \in links : shouldFollowUrl(l, startUrl) /\ l \notin seen}

(* ---------------- link tester ---------------- *)
\* What page.request.fetch can do: answer with a status, or throw an error whose
\* message names the failure.
LinkStatuses == {200, 399, 400, 404, 410, 503}

LinkErrors == {"ERR_NAME_NOT_RESOLVED", "ERR_CONNECTION_REFUSED", "Timeout exceeded"}

FetchOutcomes ==
  {[status |-> s, error |-> "none"] : s \in LinkStatuses}
  \cup {[status |-> 0, error |-> e] : e \in LinkErrors}

\* The request was not made.
NotFetched == [status |-> 0, error |-> "not sent"]

\* checkLink judging by the HEAD request alone.
checkLink_headDecides(head, get) ==
  IF head.error = "none" /\ head.status < 400
  THEN [verdict |-> "ok", detail |-> [returned |-> 0], requests |-> <<"HEAD">>]
  ELSE [verdict |-> "broken", detail |-> [returned |-> head.status],
        requests |-> <<"HEAD">>]

\* checkLink(page, url), head and get being what the two requests do: the
\* verdict, its detail and the requests made.
checkLink(head, get) ==
  IF head.error = "none" /\ head.status < 400
  THEN [verdict |-> "ok", detail |-> [returned |-> 0], requests |-> <<"HEAD">>]
  ELSE IF head.error = "none" /\ head.status \in {404, 410}
  THEN [verdict |-> "broken", detail |-> [returned |-> head.status],
        requests |-> <<"HEAD">>]
  ELSE IF get.error = "none" /\ get.status < 400
  THEN [verdict |-> "ok", detail |-> [returned |-> 0], requests |-> <<"HEAD", "GET">>]
  ELSE IF get.error = "none" /\ get.status \in {404, 410}
  THEN [verdict |-> "broken", detail |-> [returned |-> get.status],
        requests |-> <<"HEAD", "GET">>]
  ELSE IF get.error = "none"
  THEN [verdict |-> "uncertain", detail |-> [returned |-> get.status],
        requests |-> <<"HEAD", "GET">>]
  ELSE IF get.error \in {"ERR_NAME_NOT_RESOLVED", "ERR_CONNECTION_REFUSED"}
  THEN [verdict |-> "broken", detail |-> [returned |-> 0], requests |-> <<"HEAD", "GET">>]
  ELSE [verdict |-> "uncertain", detail |-> [returned |-> 0],
        requests |-> <<"HEAD", "GET">>]

\* The hrefs the loop of testBrokenLinks does not check: a skipped protocol, a
\* fragment of the page itself, a bot-blocked domain, or no URL at all.
SkippedKinds == {"mailto", "fragment", "botBlocked", "invalid"}

(* ---------------- progress fan-out ---------------- *)
\* A Set of listeners is the sequence of its members in insertion order (the order
\* its iterator follows).  fan is the fan-out of one Scan: the Set, what each
\* listener has received, how much a listener had received when it was last
\* deleted (-1 while it is a member or was never one), and the listeners invoked
\* by the push in progress.
StillSubscribed == 0 - 1

\* listeners.delete(l)
deleteListener(fan, l) ==
  IF l \notin Range(fan.order) THEN fan
  ELSE [fan EXCEPT !.order = SelectSeq(@, LAMBDA x : x # l),
                   !.frozen[l] = Len(fan.got[l])]

\* listeners.add(l)
addListener(fan, l) ==
  IF l \in Range(fan.order) THEN fan
  ELSE [fan EXCEPT !.order = Append(@, l), !.frozen[l] = StillSubscribed]

\* listener(event): the listener records the event; does[l] is the listener its
\* callback deletes from the Set (0: none).
invokeListener(fan, l, does, event) ==
  LET told == [fan EXCEPT !.got[l] = Append(@, event), !.calls = Append(@, l)]
  IN IF does[l] = 0 THEN told ELSE deleteListener(told, does[l])

\* pushProgress over a copy of the Set taken when the push starts.
RECURSIVE pushProgressLoop_snapshot(_, _, _, _)
pushProgressLoop_snapshot(fan, todo, does, event) ==
  IF todo = <<>> THEN fan
  ELSE pushProgressLoop_snapshot(invokeListener(fan, Head(todo), does, event),
                                 Tail(todo), does, event)

\* for (const listener of listeners) listener(event): todo is what the iterator has
\* still to visit; a member deleted before the iterator reaches it is not visited.
RECURSIVE pushProgressLoop(_, _, _, _)
pushProgressLoop(fan, todo, does, event) ==
  IF todo = <<>> THEN fan
  ELSE LET next == invokeListener(fan, Head(todo), does, event)
       IN pushProgressLoop(next,
                           SelectSeq(Tail(todo), LAMBDA x : x \in Range(next.order)),
                           does, event)

(* ---------------- state ---------------- *)
VARIABLES
  scans,      \* ScanStore.scans: scan id -> [url, status, report, error, progressListeners]
  run,        \* per scan: the runScan call (runScanInner's position, locals and
              \* promise `inner`, the events it published, the race promise, the timer)
  subs,       \* SSE listeners: listener id -> [scan, got]
  uuidCount,  \* identifiers issued by uuidv4 for defects so far
  rbPages,    \* report builder on its own: the pages given to buildReport
  rbReport,   \* ... and the report it returned
  rbPc,       \* ... "input" before the call, "built" after
  cache,      \* prompt cache: the module variable `cache` (NoCache: null)
  cacheFile,  \* prompt cache: the file at CACHE_PATH
  pgBugs,     \* prompt generator on its own: the defects given to generateFixPrompts
  pgCalls,    \* ... and what each call so far was given and returned
  fsPages,    \* end of runScanInner on its own: the page reports of the test phase
  fsOut,      \* ... and what the rest of runScanInner made of them
  ccLog,      \* prompt cache on its own: per key, the hint last given to
              \* setCachedPrompt and what happened since
  ccRead,     \* ... the last getCachedPrompt: its key, its result and the key's log
  ccOps,      \* ... the number of operations so far
  nuUrl,      \* normalizeUrl on its own: the string given
  nuOut,      \* ... normalizeUrl of it, and normalizeUrl of that
  crSite,     \* crawler: for each request URL of the site, the normalized URL it
              \* loads as (after redirects)
  crQueue,    \* crawler: the requests waiting in the request queue
  crKnown,    \* crawler: the URLs ever added to the request queue
  crActive,   \* crawler: the requests being handled -> position of the handler
  crRetried,  \* crawler: the requests that were retried
  crVisited,  \* crawlPages: visited
  crPages,    \* crawlPages: pages
  lkHrefs,    \* link tester: the href attributes found on the page
  lkPos,      \* link tester: the number of hrefs the loop is done with
  lkChecked,  \* testBrokenLinks: checked
  lkBugs,     \* testBrokenLinks: bugs
  lkLog,      \* link tester: per target checked, the requests made and their outcomes
  psFan,      \* fan-out on its own: the listeners of a Scan and what they received
  psPushes,   \* ... the number of events pushed so far
  psLast,     \* ... the last push: the event, the Set before and after it
  tpAt,       \* page driver on its own: the tester block testPage is in and the await
              \* it stands at
  tpPending,  \* ... the testers whose function was called and has not settled
  tpOpen,     \* ... the testers whose page (or context) is open
  tpLog,      \* ... per tester block, how runTesterSafe returned
  anLog,      \* analytics: the scan_complete records emitted, one per recordScan call
              \* (no handler of server.ts and no step of runScan calls recordScan)
  feScan,     \* web client on its own: scan.status of its scan on the backend
  fePhase,    \* ... state.phase of App
  feReport,   \* ... the kind of body held as state.report
  feStream,   \* ... the EventSource of connectProgress
  feSeen,     \* ... the length of state.progress
  feFinal,    \* ... the progress-100 event and the 500 ms timer it sets
  fePoll      \* ... tryGetReport: its position and attemptsLeft

serverVars == <<scans, run, subs, uuidCount>>
rbVars == <<rbPages, rbReport, rbPc>>
cacheVars == <<cache, cacheFile>>
pgVars == <<pgBugs, pgCalls>>
fsVars == <<fsPages, fsOut>>
ccVars == <<ccLog, ccRead, ccOps>>
nuVars == <<nuUrl, nuOut>>
crVars == <<crSite, crQueue, crKnown, crActive, crRetried, crVisited, crPages>>
lkVars == <<lkHrefs, lkPos, lkChecked, lkBugs, lkLog>>
psVars == <<psFan, psPushes, psLast>>
anVars == <<anLog>>
tpVars == <<tpAt, tpPending, tpOpen, tpLog>>
feVars == <<feScan, fePhase, feReport, feStream, feSeen, feFinal, fePoll>>
\* The fan-out, the page driver and the web client run on their own, and the
\* analytics log.
sideVars == <<psVars, tpVars, anVars, feVars>>
\* The crawler's and the testers' parts that are run on their own.
toolVars == <<nuVars, crVars, lkVars, sideVars>>
\* The variables of the components that are also run on their own.
unitVars == <<rbVars, pgVars, fsVars, ccVars, toolVars>>
vars == <<scans, run, subs, uuidCount, cacheVars, unitVars>>

ScanIds == DOMAIN scans

\* A reaction of a settled promise is queued: it runs before any handler or timer.
MicrotaskPending == \E s \in ScanIds : run[s].pc \in {"returned", "threw"}

\* scan.pushProgress(event) for each event of evs in turn: every listener in
\* progressListeners is invoked.
pushProgress(s, evs) ==
  [l \in DOMAIN subs |->
     IF l \in Range(scans[s].progressListeners)
     THEN [subs[l] EXCEPT !.got = @ \o evs]
     ELSE subs[l]]

\* GET /api/scan/:scanId/report
getReport(s) ==
  IF s \notin ScanIds THEN [code |-> 404, status |-> "none", report |-> NoReport]
  ELSE IF scans[s].status = "running"
       THEN [code |-> 202, status |-> "running", report |-> NoReport]
  ELSE IF scans[s].status = "error"
       THEN [code |-> 500, status |-> "error", report |-> NoReport]
  ELSE [code |-> 200, status |-> "complete", report |-> scans[s].report]

BugsSoFar(r) == Len(r.bugs) + SumSeq([p \in DOMAIN r.pageReports |-> Len(r.pageReports[p].bugs)])

InitServer ==
  /\ scans = <<>>
  /\ run = <<>>
  /\ subs = <<>>
  /\ uuidCount = 0

IdleReportBuilder ==
  /\ rbPages = <<>>
  /\ rbReport = NoReport
  /\ rbPc = "idle"

IdlePromptGenerator ==
  /\ pgBugs = <<>>
  /\ pgCalls = <<>>

NoOutcome == [events |-> <<>>]

IdleFinish ==
  /\ fsPages = <<>>
  /\ fsOut = NoOutcome

NoRead == [key |-> <<>>]

IdleCacheUser ==
  /\ ccLog = <<>>
  /\ ccRead = NoRead
  /\ ccOps = 0

IdleNormalize ==
  /\ nuUrl = <<>>
  /\ nuOut = <<>>

IdleCrawler ==
  /\ crSite = <<>>
  /\ crQueue = {}
  /\ crKnown = {}
  /\ crActive = <<>>
  /\ crRetried = {}
  /\ crVisited = {}
  /\ crPages = <<>>

IdleLinkTester ==
  /\ lkHrefs = <<>>
  /\ lkPos = 0
  /\ lkChecked = {}
  /\ lkBugs = <<>>
  /\ lkLog = <<>>

NoPush == [event |-> 0]

IdleFanOut ==
  /\ psFan = [order |-> <<>>, got |-> <<>>, frozen |-> <<>>, calls |-> <<>>]
  /\ psPushes = 0
  /\ psLast = NoPush

\* let store: AnalyticsStore | null = null, and nothing logged
IdleAnalytics == anLog = <<>>

IdleTestPage ==
  /\ tpAt = [k |-> 0, await |-> "none"]
  /\ tpPending = {}
  /\ tpOpen = {}
  /\ tpLog = <<>>

\* App before a scan is started: { phase: 'input' }
IdleClient ==
  /\ feScan = "none"
  /\ fePhase = "input"
  /\ feReport = "none"
  /\ feStream = "none"
  /\ feSeen = 0
  /\ feFinal = "none"
  /\ fePoll = [pc |-> "idle", attemptsLeft |-> 0]

IdleSide == IdleFanOut /\ IdleTestPage /\ IdleAnalytics /\ IdleClient

IdleTools == IdleNormalize /\ IdleCrawler /\ IdleLinkTester /\ IdleSide

\* Everything but the crawler's and the testers' parts.
coreVars == <<serverVars, cacheVars, rbVars, pgVars, fsVars, ccVars>>

IdleCore ==
  /\ InitServer
  /\ cache = NoCache
  /\ cacheFile = NoFile
  /\ IdleReportBuilder
  /\ IdlePromptGenerator
  /\ IdleFinish
  /\ IdleCacheUser

\* The hint an earlier scan left in the file for the defect the console tester
\* reports on the start page.
SeenBefore ==
  [id |-> NoId, type |-> TesterType[1], severity |-> TesterSeverity[1],
   title |-> <<"a">>, details |-> <<"b">>, page |-> RootPage, fixPrompt |-> NoPrompt]

\* What the file at CACHE_PATH can hold when the process starts.
CacheFiles ==
  {NoFile, CorruptFile, FileOf(PutEntry(<<>>, KeyOf(SeenBefore), TemplateHint(SeenBefore)))}

InitCache ==
  /\ cache = NoCache
  /\ cacheFile \in CacheFiles

Init ==
  /\ InitServer
  /\ InitCache
  /\ IdleReportBuilder
  /\ IdlePromptGenerator
  /\ IdleFinish
  /\ IdleCacheUser
  /\ IdleTools

\* A first start of the process: no cache file yet.
InitFresh == Init /\ cacheFile = NoFile

(* ---------------- HTTP handlers ---------------- *)
\* The state of a runScan call right after POST /api/scan returns: runScanInner has
\* run up to `await crawler.run`, publishing the two opening events (no listener
\* can be attached yet).
NewRun ==
  [pc |-> "crawl", found |-> 0, i |-> 0, k |-> 1, bugs |-> <<>>,
   pageReports |-> <<>>, failed |-> FALSE, apiKey |-> FALSE,
   promptResult |-> [usedFallback |-> FALSE, cacheHits |-> 0, cacheMisses |-> 0],
   last |-> [page |-> 0, tester |-> 0, outcome |-> "none"],
   published |-> <<Event("crawling", 0), Event("crawling", adaptCrawlProgress(0))>>,
   inner |-> "pending", race |-> "pending", timer |-> "armed", result |-> NoReport]

\* The status code POST /api/scan answers with.
postScanResponse(url) ==
  IF url = NoUrl \/ ~validateUrl(url) THEN 400
  ELSE IF hasRunning(scans) THEN 429
  ELSE 200

\* POST /api/scan: a rejected request changes nothing; an accepted one creates the
\* Scan and calls runScan.
PostScan(url) ==
  /\ ~MicrotaskPending
  /\ IF postScanResponse(url) # 200
     THEN UNCHANGED <<scans, run>>
     ELSE /\ Len(scans) < MaxScans
          /\ scans' = Append(scans, [url |-> url, status |-> "running",
                                     report |-> NoReport, error |-> NoError,
                                     progressListeners |-> <<>>])
          /\ run' = Append(run, NewRun)
  /\ UNCHANGED <<subs, uuidCount, cacheVars, unitVars>>

\* GET /api/scan/:scanId/progress: a listener is added to the scan's set.
Subscribe(s) ==
  /\ ~MicrotaskPending
  /\ s \in ScanIds
  /\ Len(subs) < MaxListeners
  /\ subs' = Append(subs, [scan |-> s, got |-> <<>>])
  /\ scans' = [scans EXCEPT ![s].progressListeners = Append(@, Len(subs) + 1)]
  /\ UNCHANGED <<run, uuidCount, cacheVars, unitVars>>

\* req.on('close'): the listener is deleted from the set.
Disconnect(l) ==
  /\ ~MicrotaskPending
  /\ l \in DOMAIN subs
  /\ l \in Range(scans[subs[l].scan].progressListeners)
  /\ scans' = [scans EXCEPT ![subs[l].scan].progressListeners =
                              SelectSeq(@, LAMBDA x : x # l)]
  /\ UNCHANGED <<run, subs, uuidCount, cacheVars, unitVars>>

(* ---------------- orchestrator: runScan / runScanInner / testPage ---------------- *)
\* The pipeline of scan s publishes evs and moves to the record r.
Step(s, r, evs) ==
  /\ run' = [run EXCEPT ![s] = [r EXCEPT !.published = @ \o evs]]
  /\ subs' = pushProgress(s, evs)

\* crawler requestHandler: a new page is found and reported.
CrawlFound(s) ==
  /\ ~MicrotaskPending
  /\ s \in ScanIds
  /\ run[s].pc = "crawl"
  /\ run[s].found < MaxDiscovered
  /\ run[s].found < maxPages
  /\ Step(s, [run[s] EXCEPT !.found = @ + 1],
          <<Event("crawling", adaptCrawlProgress(crawlProgress(run[s].found + 1)))>>)
  /\ UNCHANGED <<scans, uuidCount, cacheVars, unitVars>>

\* crawler.run returns: crawlPages publishes 100, runScanInner publishes 'Found N'
\* and awaits chromium.launch.
CrawlDone(s) ==
  /\ ~MicrotaskPending
  /\ s \in ScanIds
  /\ run[s].pc = "crawl"
  /\ Step(s, [run[s] EXCEPT !.pc = "launch"],
          <<Event("crawling", adaptCrawlProgress(100)), Event("crawling", CrawlShare)>>)
  /\ UNCHANGED <<scans, uuidCount, cacheVars, unitVars>>

\* chromium.launch settles; on success the loop announces page 1 and testPage awaits
\* its first browser.newPage (no page: straight to finally { browser.close() }).
LaunchBrowser(s, ok) ==
  /\ ~MicrotaskPending
  /\ s \in ScanIds
  /\ run[s].pc = "launch"
  /\ IF ~ok
     THEN Step(s, [run[s] EXCEPT !.pc = "threw"], <<>>)
     ELSE IF run[s].found = 0
          THEN Step(s, [run[s] EXCEPT !.pc = "closing"], <<>>)
          ELSE Step(s, [run[s] EXCEPT !.pc = "test", !.i = 0, !.k = 1],
                    <<Event("testing", testProgress(0, run[s].found))>>)
  /\ UNCHANGED <<scans, uuidCount, cacheVars, unitVars>>

\* runScanInner has work left: it is at one of its awaits (crawl, launch, test
\* loop, browser.close, generateFixPrompts).
pipelineWorking(r) == r.pc \in {"crawl", "launch", "test", "closing", "prompts"}

\* The browser of chromium.launch is open from the moment launch resolves until
\* browser.close() in the finally block has resolved.
browserOpen(r) == r.pc \in {"test", "closing"}

\* A tester block of testPage is under way on the browser.
testerActive(r) == r.pc = "test"

\* The pipeline after tester k of page i (from 0) has added its bugs and its page
\* was closed: the next tester, or the end of testPage and the next loop round.
AfterTester(s, r) ==
  IF r.k < Len(Testers)
  THEN Step(s, [r EXCEPT !.k = @ + 1], <<>>)
  ELSE LET tested == Event("testing", testedProgress(r.i, r.found))
           done == [r EXCEPT !.pageReports = Append(@, [url |-> r.i + 1, bugs |-> r.bugs]),
                             !.bugs = <<>>]
       IN IF r.i + 1 < r.found
          THEN Step(s, [done EXCEPT !.i = @ + 1, !.k = 1],
                    <<tested, Event("testing", testProgress(r.i + 1, r.found))>>)
          ELSE Step(s, [done EXCEPT !.pc = "closing"], <<tested>>)

\* One tester block of testPage: browser.newPage, runTesterSafe, bugs.push, close.
\* An exception outside runTesterSafe leaves testPage and the loop; the finally
\* block then awaits browser.close with the exception pending.
RunTester(s, outcome, result) ==
  /\ ~MicrotaskPending
  /\ s \in ScanIds
  /\ run[s].pc = "test"
  /\ result \in TesterResults(run[s].k, run[s].i + 1)
  /\ result # <<>> => outcome = "ok" /\ BugsSoFar(run[s]) < MaxBugs
  /\ LET r == [run[s] EXCEPT !.last = [page |-> run[s].i + 1, tester |-> run[s].k,
                                       outcome |-> outcome]]
         safe == runTesterSafe(outcome, result)
     IN IF outcome \in DriverFailures \/ safe.threw
        THEN Step(s, [r EXCEPT !.pc = "closing", !.failed = TRUE], <<>>)
        ELSE AfterTester(s, [r EXCEPT !.bugs = @ \o safe.bugs])
  /\ UNCHANGED <<scans, uuidCount, cacheVars, unitVars>>

\* finally { await browser.close() } settles: a pending exception (or one from
\* close) rejects runScanInner; otherwise the prompts phase starts.
CloseBrowser(s, ok) ==
  /\ ~MicrotaskPending
  /\ s \in ScanIds
  /\ run[s].pc = "closing"
  /\ IF run[s].failed \/ ~ok
     THEN Step(s, [run[s] EXCEPT !.pc = "threw"], <<>>)
     ELSE Step(s, [run[s] EXCEPT !.pc = "prompts"], <<Event("prompts", PromptsProgress)>>)
  /\ UNCHANGED <<scans, uuidCount, cacheVars, unitVars>>

\* if (promptResult.usedFallback && promptResult.fallbackReason)
\*   report.warnings = [promptResult.fallbackReason]
attachWarnings_always(report, usedFallback) ==
  [report EXCEPT !.warnings = <<FALLBACK_REASON>>]

attachWarnings(report, usedFallback) ==
  IF usedFallback THEN [report EXCEPT !.warnings = <<FALLBACK_REASON>>] ELSE report

\* runScanInner from generateFixPrompts on: the events published after the call
\* returns, the page reports with the hints mapped back, the report returned,
\* and the cache and file left behind.
finishScan(url, pageReports, mem, file, uuidBase, apiKey, replies, saved) ==
  LET allBugs == Flatten([p \in DOMAIN pageReports |-> pageReports[p].bugs])
      promptResult == generateFixPrompts(allBugs, mem, file, apiKey, replies, saved)
      mapped == mapBack(pageReports, promptResult.bugs)
      built == buildReport(url, mapped, uuidBase)
  IN [events |-> (IF promptResult.usedFallback
                  THEN <<Event("prompts", FallbackProgress)>> ELSE <<>>)
                 \o <<Event("report", ReportProgress),
                      Event("complete", CompleteProgress)>>,
      pageReports |-> mapped,
      promptResult |-> [usedFallback |-> promptResult.usedFallback,
                        cacheHits |-> promptResult.cacheHits,
                        cacheMisses |-> promptResult.cacheMisses],
      report |-> attachWarnings(built, promptResult.usedFallback),
      cache |-> promptResult.cache,
      file |-> promptResult.file]

\* generateFixPrompts returns: fallback event, map back, report, complete event,
\* and runScanInner returns the report.
PromptsDone(s, apiKey, replies, saved) ==
  /\ ~MicrotaskPending
  /\ s \in ScanIds
  /\ run[s].pc = "prompts"
  /\ LET r == run[s]
         allBugs == Flatten([p \in DOMAIN r.pageReports |-> r.pageReports[p].bugs])
     IN /\ DOMAIN replies = IF apiKey THEN BatchPages(allBugs, cache, cacheFile) ELSE {}
        /\ saved <= Len(UncachedBugs(allBugs, cache, cacheFile))
        /\ LET fin == finishScan(scans[s].url, r.pageReports, cache, cacheFile,
                                 uuidCount, apiKey, replies, saved)
           IN /\ cache' = fin.cache
              /\ cacheFile' = fin.file
              /\ Step(s, [r EXCEPT !.pc = "returned", !.pageReports = fin.pageReports,
                                   !.promptResult = fin.promptResult,
                                   !.apiKey = apiKey,
                                   !.result = fin.report],
                      fin.events)
              /\ uuidCount' = uuidCount + fin.report.summary.totalBugs
  /\ UNCHANGED <<scans, unitVars>>

\* The reactions of runScanInner's settled promise: the race settles (if it still
\* can) and the handler POST /api/scan attached with .then/.catch runs.  The
\* locals of runScanInner are gone.
ScanSettled(s) ==
  /\ s \in ScanIds
  /\ run[s].pc \in {"returned", "threw"}
  /\ LET outcome == IF run[s].pc = "returned" THEN "resolved" ELSE "rejected"
         race == SettleRace(run[s].race, outcome)
     IN /\ run' = [run EXCEPT ![s] = [NewRun EXCEPT !.pc = "done", !.race = race,
                                                    !.inner = outcome,
                                                    !.timer = run[s].timer,
                                                    !.published = run[s].published]]
        /\ IF race = run[s].race
           THEN UNCHANGED scans
           ELSE IF race = "resolved"
                THEN scans' = [scans EXCEPT ![s].status = "complete",
                                            ![s].report = run[s].result]
                ELSE scans' = [scans EXCEPT ![s].status = "error",
                                            ![s].error = <<"Scan failed">>]
  /\ UNCHANGED <<subs, uuidCount, cacheVars, unitVars>>

\* setTimeout(..., SCAN_TIMEOUT) fires: reject(new Error('Scan timed out ...')).
TimerFire(s) ==
  /\ ~MicrotaskPending
  /\ s \in ScanIds
  /\ run[s].timer = "armed"
  /\ LET race == SettleRace(run[s].race, "rejected")
     IN /\ run' = [run EXCEPT ![s].timer = "fired", ![s].race = race]
        /\ IF race = run[s].race
           THEN UNCHANGED scans
           ELSE scans' = [scans EXCEPT ![s].status = "error",
                                       ![s].error = SCAN_TIMEOUT_MESSAGE]
  /\ UNCHANGED <<subs, uuidCount, cacheVars, unitVars>>

(* ---------------- the report builder on its own ---------------- *)
\* Defects given to buildReport: two types, the three severities, and texts of
\* which two differ and two give the same fingerprint string.
RbTexts ==
  {[title |-> <<"a">>, details |-> <<"b">>],
   [title |-> <<"a">>, details |-> <<"b", "::", "b">>],
   [title |-> <<"a", "::", "b">>, details |-> <<"b">>]}

RbKinds ==
  {[type |-> "console-error", severity |-> "warning"],
   [type |-> "console-error", severity |-> "critical"],
   [type |-> "accessibility", severity |-> "info"]}

RbBugPool ==
  {[id |-> NoId, type |-> kd.type, severity |-> kd.severity, title |-> tx.title,
    details |-> tx.details, page |-> 0, fixPrompt |-> "template"] :
     kd \in RbKinds, tx \in RbTexts}

\* The page list whose bugs are flat, page p ending after flat[cuts[p]].
RbPagesOf(flat, cuts) ==
  [p \in DOMAIN cuts |->
     LET from == IF p = 1 THEN 0 ELSE cuts[p - 1]
     IN [url |-> p,
         bugs |-> [j \in 1..(cuts[p] - from) |-> [flat[from + j] EXCEPT !.page = p]]]]

\* Where the pages end in a list of n bugs over np pages.
RbCuts(n, np) ==
  {c \in [1..np -> 0..n] :
     /\ np = 0 => n = 0
     /\ np > 0 => c[np] = n
     /\ \A p \in 1..np : p > 1 => c[p - 1] <= c[p]}

InitReport ==
  /\ InitServer
  /\ cache = NoCache
  /\ cacheFile = NoFile
  /\ IdlePromptGenerator
  /\ IdleFinish
  /\ IdleCacheUser
  /\ IdleTools
  /\ \E np \in 0..MaxRbPages, n \in 0..MaxRbBugs :
       \E flat \in [1..n -> RbBugPool], cuts \in RbCuts(n, np) :
         rbPages = RbPagesOf(flat, cuts)
  /\ rbReport = NoReport
  /\ rbPc = "input"

\* buildReport(url, pages)
BuildReportCall ==
  /\ rbPc = "input"
  /\ rbReport' = buildReport(NoUrl, rbPages, 0)
  /\ rbPc' = "built"
  /\ UNCHANGED <<toolVars, serverVars, cacheVars, pgVars, fsVars, ccVars, rbPages>>

NextReport == BuildReportCall

SpecReport == InitReport /\ [][NextReport]_vars

(* ---------------- the prompt generator on its own ---------------- *)
\* Defects given to generateFixPrompts: two on the start page with different
\* details, and one on a second page with the cache key of the first.
PgBugPool ==
  {[id |-> NoId, type |-> "console-error", severity |-> "critical", title |-> <<"a">>,
    details |-> d, page |-> RootPage, fixPrompt |-> NoPrompt] : d \in {<<"b">>, <<"c">>}}
  \cup {[id |-> NoId, type |-> "console-error", severity |-> "critical", title |-> <<"a">>,
          details |-> <<"b">>, page |-> 2, fixPrompt |-> NoPrompt]}

InitPrompts ==
  /\ InitServer
  /\ InitCache
  /\ IdleReportBuilder
  /\ IdleFinish
  /\ IdleCacheUser
  /\ IdleTools
  /\ \E n \in 0..MaxPgBugs : pgBugs \in [1..n -> PgBugPool]
  /\ pgCalls = <<>>

\* await generateFixPrompts(pgBugs)
GenerateCall(apiKey, replies, saved) ==
  /\ Len(pgCalls) < MaxPgCalls
  /\ LET before == loadCache(cache, cacheFile).data
         result == generateFixPrompts(pgBugs, cache, cacheFile, apiKey, replies, saved)
     IN /\ DOMAIN replies = IF apiKey THEN BatchPages(pgBugs, cache, cacheFile) ELSE {}
        /\ saved <= Len(UncachedBugs(pgBugs, cache, cacheFile))
        /\ cache' = result.cache
        /\ cacheFile' = result.file
        /\ pgCalls' = Append(pgCalls,
             [apiKey |-> apiKey, replies |-> replies, before |-> before,
              after |-> result.cache.data,
              bugs |-> result.bugs, usedFallback |-> result.usedFallback,
              cacheHits |-> result.cacheHits, cacheMisses |-> result.cacheMisses,
              uncachedBugs |-> result.uncachedBugs])
  /\ UNCHANGED <<toolVars, serverVars, rbVars, fsVars, ccVars, pgBugs>>

NextPrompts ==
  \E apiKey \in BOOLEAN, saved \in 0..MaxPgBugs :
    \E pages \in SUBSET (1..2) : \E replies \in [pages -> ApiReplies] :
      GenerateCall(apiKey, replies, saved)

SpecPrompts == InitPrompts /\ [][NextPrompts]_vars

(* ---------------- the end of runScanInner on its own ---------------- *)
\* What the test phase hands to the prompts phase: the page reports of one or two
\* pages, every defect carrying the URL of its page. The defects differ in type or
\* details, and so in fingerprint and cache key.
FsBugPool ==
  {[id |-> NoId, type |-> "console-error", severity |-> "critical", title |-> <<"a">>,
    details |-> d, page |-> RootPage, fixPrompt |-> NoPrompt] : d \in {<<"b">>, <<"c">>}}
  \cup {[id |-> NoId, type |-> "broken-link", severity |-> "warning", title |-> <<"a">>,
          details |-> <<"b">>, page |-> RootPage, fixPrompt |-> NoPrompt]}

\* The replies that take the four paths of a batch: the array is used, a string of
\* it is empty, there is no array, the call fails.
FsReplies == {"full", "blank", "noJson", "throws"}

InitFinish ==
  /\ InitServer
  /\ cache = NoCache
  /\ cacheFile \in CacheFiles \ {CorruptFile}
  /\ IdleReportBuilder
  /\ IdlePromptGenerator
  /\ IdleCacheUser
  /\ IdleTools
  /\ \E np \in 1..MaxRbPages, n \in 0..MaxPgBugs :
       \E flat \in [1..n -> FsBugPool], cuts \in RbCuts(n, np) :
         fsPages = RbPagesOf(flat, cuts)
  /\ fsOut = NoOutcome

\* runScanInner from `await generateFixPrompts(allBugs)` to `return report`
FinishScan(apiKey, replies, saved) ==
  /\ fsOut = NoOutcome
  /\ LET allBugs == Flatten([p \in DOMAIN fsPages |-> fsPages[p].bugs])
     IN /\ DOMAIN replies = IF apiKey THEN BatchPages(allBugs, cache, cacheFile) ELSE {}
        /\ saved <= Len(UncachedBugs(allBugs, cache, cacheFile))
        /\ LET fin == finishScan(NoUrl, fsPages, cache, cacheFile, uuidCount,
                                 apiKey, replies, saved)
           IN /\ fsOut' = fin
              /\ cache' = fin.cache
              /\ cacheFile' = fin.file
              /\ uuidCount' = uuidCount + fin.report.summary.totalBugs
  /\ UNCHANGED <<toolVars, scans, run, subs, rbVars, pgVars, ccVars, fsPages>>

NextFinish ==
  \E apiKey \in BOOLEAN, saved \in 0..MaxPgBugs :
    \E pages \in SUBSET (1..MaxRbPages) : \E replies \in [pages -> FsReplies] :
      FinishScan(apiKey, replies, saved)

SpecFinish == InitFinish /\ [][NextFinish]_vars

(* ---------------- the prompt cache on its own ---------------- *)
\* The keys and hints the cache is used with: the keys of two defects, two hints.
CcKeys == {KeyOf(b) : b \in {x \in PgBugPool : x.page = RootPage /\ x.type = "console-error"}}

CcHints == {TemplateHint(b) : b \in {x \in PgBugPool : x.type = "console-error" /\ x.details = <<"b">>}}

InitCacheUser ==
  /\ InitServer
  /\ InitCache
  /\ IdleReportBuilder
  /\ IdlePromptGenerator
  /\ IdleFinish
  /\ IdleCacheUser
  /\ IdleTools

\* setCachedPrompt(key, prompt); writeOk says whether writeFileSync succeeds.
SetCached(key, prompt, writeOk) ==
  /\ ccOps < MaxCacheOps
  /\ LET set == setCachedPrompt(cache, cacheFile, key, prompt, writeOk)
     IN /\ cache' = set.cache
        /\ cacheFile' = set.file
  /\ ccLog' = [k \in DOMAIN ccLog \cup {key} |->
                 IF k = key
                 THEN [hint |-> prompt, saved |-> writeOk, cleared |-> FALSE,
                       removed |-> FALSE, restarted |-> FALSE]
                 ELSE IF writeOk /\ ~ccLog[k].restarted /\ ~ccLog[k].cleared
                      THEN [ccLog[k] EXCEPT !.saved = TRUE]
                      ELSE ccLog[k]]
  /\ ccOps' = ccOps + 1
  /\ UNCHANGED <<toolVars, serverVars, rbVars, pgVars, fsVars, ccRead>>

\* getCachedPrompt(key)
GetCached(key) ==
  /\ ccOps < MaxCacheOps
  /\ key \in DOMAIN ccLog
  /\ ccRead' = [key |-> key, value |-> getCachedPrompt(cache, cacheFile, key),
                log |-> ccLog[key]]
  /\ cache' = loadCache(cache, cacheFile)
  /\ ccOps' = ccOps + 1
  /\ UNCHANGED <<toolVars, serverVars, rbVars, pgVars, fsVars, cacheFile, ccLog>>

\* clearCache()
ClearCache ==
  /\ ccOps < MaxCacheOps
  /\ cache' = clearCache
  /\ ccLog' = [k \in DOMAIN ccLog |-> [ccLog[k] EXCEPT !.cleared = TRUE]]
  /\ ccOps' = ccOps + 1
  /\ UNCHANGED <<toolVars, serverVars, rbVars, pgVars, fsVars, cacheFile, ccRead>>

\* The process exits and starts again: `let cache = null`.
Restart ==
  /\ ccOps < MaxCacheOps
  /\ cache' = NoCache
  /\ ccLog' = [k \in DOMAIN ccLog |-> [ccLog[k] EXCEPT !.restarted = TRUE]]
  /\ ccOps' = ccOps + 1
  /\ UNCHANGED <<toolVars, serverVars, rbVars, pgVars, fsVars, cacheFile, ccRead>>

\* The file at CACHE_PATH is removed.
RemoveFile ==
  /\ ccOps < MaxCacheOps
  /\ cacheFile.state # "missing"
  /\ cacheFile' = NoFile
  /\ ccLog' = [k \in DOMAIN ccLog |-> [ccLog[k] EXCEPT !.removed = TRUE]]
  /\ ccOps' = ccOps + 1
  /\ UNCHANGED <<toolVars, serverVars, rbVars, pgVars, fsVars, cache, ccRead>>

NextCache ==
  \/ \E key \in CcKeys, prompt \in CcHints, writeOk \in BOOLEAN :
       SetCached(key, prompt, writeOk)
  \/ \E key \in CcKeys : GetCached(key)
  \/ ClearCache
  \/ Restart
  \/ RemoveFile

SpecCache == InitCacheUser /\ [][NextCache]_vars

(* ---------------- normalizeUrl on its own ---------------- *)
\* The strings of "/" and "a" of length up to n.
RECURSIVE Texts(_)
Texts(n) ==
  IF n = 0 THEN {<<>>}
  ELSE Texts(n - 1) \cup {Append(t, c) : t \in {x \in Texts(n - 1) : Len(x) = n - 1},
                                        c \in {"/", "a"}}

\* Absolute URLs with a path (empty or starting with "/"), with or without a
\* query and a fragment, and the same strings without scheme and host.
UrlStrings ==
  LET paths == {p \in Texts(MaxPathLen) : p = <<>> \/ p[1] = "/"}
      queries == {<<>>} \cup {<<"?">> \o q : q \in Texts(MaxQueryLen)}
      hashes == {<<>>, <<"#">>, <<"#", "a">>, <<"#", "/">>}
      relative == {p \o q \o h : p \in paths, q \in queries, h \in hashes}
  IN {<<"O">> \o r : r \in relative} \cup (relative \ {<<>>})

InitNormalize ==
  /\ IdleCore
  /\ IdleSide
  /\ IdleCrawler
  /\ IdleLinkTester
  /\ nuUrl \in UrlStrings
  /\ nuOut = <<>>

\* normalizeUrl(nuUrl), and normalizeUrl of the result
NormalizeTwice ==
  /\ nuOut = <<>>
  /\ nuOut' = <<normalizeUrl(nuUrl), normalizeUrl(normalizeUrl(nuUrl))>>
  /\ UNCHANGED <<coreVars, sideVars, crVars, lkVars, nuUrl>>

NextNormalize == NormalizeTwice

SpecNormalize == InitNormalize /\ [][NextNormalize]_vars

(* ---------------- the crawler on its own ---------------- *)
\* The normalized URLs of the site; 1 is the start URL.  Every URL may redirect
\* to any URL of the site, and a page may link to any of them and to a URL on
\* another host.
CrUrls == 1..MaxSiteUrls

CrTargets == CrUrls \cup {ForeignUrl}

InitCrawl ==
  /\ IdleCore
  /\ IdleSide
  /\ IdleNormalize
  /\ IdleLinkTester
  /\ crSite \in [CrUrls -> CrUrls]
  /\ crQueue = {startUrl}
  /\ crKnown = {startUrl}
  /\ crActive = <<>>
  /\ crRetried = {}
  /\ crVisited = {}
  /\ crPages = <<>>

Handling(u, pc) == u \in DOMAIN crActive /\ crActive[u] = pc

Without(active, u) == [x \in DOMAIN active \ {u} |-> active[x]]

\* The crawler takes a request from the queue: at most maxConcurrency are handled
\* at a time.  requestHandler runs up to `await page.waitForLoadState`.
StartRequest(u) ==
  /\ u \in crQueue
  /\ Cardinality(DOMAIN crActive) < maxConcurrency
  /\ crQueue' = crQueue \ {u}
  /\ crActive' = [x \in DOMAIN crActive \cup {u} |-> IF x = u THEN "load" ELSE crActive[x]]
  /\ UNCHANGED <<coreVars, sideVars, nuVars, lkVars, crSite, crKnown, crRetried, crVisited, crPages>>

\* requestHandler from waitForLoadState to `await page.title()`: url is
\* normalizeUrl(request.loadedUrl || request.url), here crSite[u].
PageLoaded(u) ==
  /\ Handling(u, "load")
  /\ crActive' = [crActive EXCEPT ![u] = "title"]
  /\ UNCHANGED <<coreVars, sideVars, nuVars, lkVars, crSite, crQueue, crKnown, crRetried,
                 crVisited, crPages>>

\* requestHandler from page.title() to `await enqueueLinks`: the page is recorded.
TitleRead(u) ==
  /\ Handling(u, "title")
  /\ LET rec == recordPage(crVisited, crPages, crSite[u])
     IN /\ crVisited' = rec.visited
        /\ crPages' = rec.pages
  /\ crActive' = [crActive EXCEPT ![u] = "enqueue"]
  /\ UNCHANGED <<coreVars, sideVars, nuVars, lkVars, crSite, crQueue, crKnown, crRetried>>

\* enqueueLinks finds the links of the page, filters them and adds the new ones to
\* the request queue; the handler returns.
LinksEnqueued(u, links) ==
  /\ Handling(u, "enqueue")
  /\ LET new == linksToFollow(links, crVisited) \ crKnown
     IN /\ crQueue' = crQueue \cup new
        /\ crKnown' = crKnown \cup new
  /\ crActive' = Without(crActive, u)
  /\ UNCHANGED <<coreVars, sideVars, nuVars, lkVars, crSite, crRetried, crVisited, crPages>>

\* The navigation or the handler fails or runs out of time: the request is
\* retried once, then given to failedRequestHandler.
RequestFailed(u) ==
  /\ u \in DOMAIN crActive
  /\ crActive' = Without(crActive, u)
  /\ IF u \notin crRetried
     THEN /\ crRetried' = crRetried \cup {u}
          /\ crQueue' = crQueue \cup {u}
          /\ UNCHANGED crVisited
     ELSE /\ crVisited' = crVisited \cup {u}
          /\ UNCHANGED <<crRetried, crQueue>>
  /\ UNCHANGED <<coreVars, sideVars, nuVars, lkVars, crSite, crKnown, crPages>>

NextCrawl ==
  \/ \E u \in CrUrls : StartRequest(u)
  \/ \E u \in CrUrls : PageLoaded(u)
  \/ \E u \in CrUrls : TitleRead(u)
  \/ \E u \in CrUrls, links \in SUBSET CrTargets : LinksEnqueued(u, links)
  \/ \E u \in CrUrls : RequestFailed(u)

SpecCrawl == InitCrawl /\ [][NextCrawl]_vars

\* The crawler on a site whose URLs may also redirect to another host:
\* request.loadedUrl is the URL after the redirects.
InitCrawlHosts ==
  /\ IdleCore
  /\ IdleSide
  /\ IdleNormalize
  /\ IdleLinkTester
  /\ crSite \in [CrUrls -> CrTargets]
  /\ crQueue = {startUrl}
  /\ crKnown = {startUrl}
  /\ crActive = <<>>
  /\ crRetried = {}
  /\ crVisited = {}
  /\ crPages = <<>>

SpecCrawlHosts == InitCrawlHosts /\ [][NextCrawl]_vars

(* ---------------- the link tester on its own ---------------- *)
\* The href attributes of a page: links to two targets, with and without a
\* fragment, and hrefs that are skipped.
LkHrefPool ==
  {[kind |-> "link", target |-> t, hash |-> h] : t \in {"t1", "t2"}, h \in BOOLEAN}
  \cup {[kind |-> k, target |-> "none", hash |-> FALSE] : k \in {"mailto", "botBlocked"}}

InitLinks ==
  /\ IdleCore
  /\ IdleSide
  /\ IdleNormalize
  /\ IdleCrawler
  /\ \E n \in 0..MaxHrefs : lkHrefs \in [1..n -> LkHrefPool]
  /\ lkPos = 0
  /\ lkChecked = {}
  /\ lkBugs = <<>>
  /\ lkLog = <<>>

\* One round of the loop over hrefs; head and get are what the two requests to
\* the target would do.
CheckNextHref(head, get) ==
  /\ lkPos < Len(lkHrefs)
  /\ LET href == lkHrefs[lkPos + 1]
         result == checkLink(head, get)
         sent == Len(result.requests)
     IN IF Cardinality(lkChecked) >= MAX_LINKS
        THEN /\ head = NotFetched /\ get = NotFetched
             /\ lkPos' = Len(lkHrefs)
             /\ UNCHANGED <<lkChecked, lkBugs, lkLog>>
        ELSE IF href.kind \in SkippedKinds \/ href.target \in lkChecked
        THEN /\ head = NotFetched /\ get = NotFetched
             /\ lkPos' = lkPos + 1
             /\ UNCHANGED <<lkChecked, lkBugs, lkLog>>
        ELSE /\ head \in FetchOutcomes
             /\ IF sent = 2 THEN get \in FetchOutcomes ELSE get = NotFetched
             /\ lkPos' = lkPos + 1
             /\ lkChecked' = lkChecked \cup {href.target}
             /\ lkBugs' = IF result.verdict = "broken"
                          THEN Append(lkBugs,
                                 [id |-> NoId, type |-> "broken-link", severity |-> "warning",
                                  title |-> <<"Broken link: ", href>>,
                                  details |-> [url |-> href.target, detail |-> result.detail],
                                  page |-> RootPage, fixPrompt |-> NoPrompt])
                          ELSE lkBugs
             /\ lkLog' = Append(lkLog, [target |-> href.target, head |-> head, get |-> get,
                                        requests |-> result.requests])
  /\ UNCHANGED <<coreVars, sideVars, nuVars, crVars, lkHrefs>>

NextLinks ==
  \E head, get \in FetchOutcomes \cup {NotFetched} : CheckNextHref(head, get)

SpecLinks == InitLinks /\ [][NextLinks]_vars

(* ---------------- the progress fan-out on its own ---------------- *)
\* The listeners that can subscribe to the Scan.
PsListeners == 1..MaxSubscribers

\* What the callbacks do during one push: each one only records the event, or
\* also deletes itself or the listener with the next number from the Set.
PsCallbacks ==
  {does \in [PsListeners -> {0} \cup PsListeners] :
     \A l \in PsListeners : does[l] \in {0, l, (l % MaxSubscribers) + 1}}

\* The tools and the components outside the fan-out at rest.
IdleBesidesFanOut ==
  /\ IdleCore
  /\ IdleNormalize
  /\ IdleCrawler
  /\ IdleLinkTester
  /\ IdleTestPage
  /\ IdleAnalytics
  /\ IdleClient

InitFanOut ==
  /\ IdleBesidesFanOut
  /\ psFan = [order |-> <<>>, got |-> [l \in PsListeners |-> <<>>],
              frozen |-> [l \in PsListeners |-> StillSubscribed], calls |-> <<>>]
  /\ psPushes = 0
  /\ psLast = NoPush

\* scan.progressListeners.add(listener)
AddListener(l) ==
  /\ l \notin Range(psFan.order)
  /\ psFan' = addListener(psFan, l)
  /\ UNCHANGED <<coreVars, nuVars, crVars, lkVars, tpVars, anVars, feVars, psPushes, psLast>>

\* scan.progressListeners.delete(listener), between two pushes
DeleteListener(l) ==
  /\ l \in Range(psFan.order)
  /\ psFan' = deleteListener(psFan, l)
  /\ UNCHANGED <<coreVars, nuVars, crVars, lkVars, tpVars, anVars, feVars, psPushes, psLast>>

\* scan.pushProgress(event), does[l] being what the callback of l deletes
PushProgress(does) ==
  /\ psPushes < MaxPushes
  /\ psFan.order # <<>>
  /\ LET event == psPushes + 1
         after == pushProgressLoop([psFan EXCEPT !.calls = <<>>], psFan.order, does, event)
     IN /\ psFan' = after
        /\ psPushes' = event
        /\ psLast' = [event |-> event, before |-> psFan.order, after |-> after.order]
  /\ UNCHANGED <<coreVars, nuVars, crVars, lkVars, tpVars, anVars, feVars>>

NextFanOut ==
  \/ \E l \in PsListeners : AddListener(l)
  \/ \E l \in PsListeners : DeleteListener(l)
  \/ \E does \in PsCallbacks : PushProgress(does)

SpecFanOut == InitFanOut /\ [][NextFanOut]_vars

(* ---------------- the page driver on its own ---------------- *)
\* testPage has called browser.newPage() for its first tester block.
InitTestPage ==
  /\ IdleCore
  /\ IdleNormalize
  /\ IdleCrawler
  /\ IdleLinkTester
  /\ IdleFanOut
  /\ IdleAnalytics
  /\ IdleClient
  /\ tpAt = [k |-> 1, await |-> "newPage"]
  /\ tpPending = {}
  /\ tpOpen = {}
  /\ tpLog = <<>>

\* browser.newPage() resolves; runTesterSafe calls fn(), which starts the tester on
\* the page, arms the 30 s timer and awaits the race of the two.
PageOpened ==
  /\ tpAt.await = "newPage"
  /\ tpAt' = [tpAt EXCEPT !.await = "race"]
  /\ tpOpen' = tpOpen \cup {tpAt.k}
  /\ tpPending' = tpPending \cup {tpAt.k}
  /\ UNCHANGED <<coreVars, nuVars, crVars, lkVars, psVars, anVars, feVars, tpLog>>

\* The promise of tester k settles.  If runTesterSafe is awaiting it, the race
\* settles with it, the bugs are pushed and testPage awaits page.close(); if its
\* race was lost to the timer, nothing is waiting for it.
TesterSettles(k) ==
  /\ k \in tpPending
  /\ tpPending' = tpPending \ {k}
  /\ IF tpAt.k = k /\ tpAt.await = "race"
     THEN /\ tpAt' = [tpAt EXCEPT !.await = "close"]
          /\ tpLog' = Append(tpLog, "settled")
     ELSE UNCHANGED <<tpAt, tpLog>>
  /\ UNCHANGED <<coreVars, nuVars, crVars, lkVars, psVars, anVars, feVars, tpOpen>>

\* The timer of the tester block testPage is in fires first: the race rejects,
\* runTesterSafe returns [] and testPage awaits page.close().  The tester's own
\* promise is left as it is.
TesterTimesOut ==
  /\ tpAt.await = "race"
  /\ tpAt.k \in tpPending
  /\ tpAt' = [tpAt EXCEPT !.await = "close"]
  /\ tpLog' = Append(tpLog, "timedOut")
  /\ UNCHANGED <<coreVars, nuVars, crVars, lkVars, psVars, anVars, feVars, tpPending, tpOpen>>

\* page.close() resolves: testPage calls browser.newPage() for the next tester, or
\* publishes 'Tested' and returns.
PageClosed ==
  /\ tpAt.await = "close"
  /\ tpOpen' = tpOpen \ {tpAt.k}
  /\ tpAt' = IF tpAt.k < Len(Testers) THEN [k |-> tpAt.k + 1, await |-> "newPage"]
             ELSE [tpAt EXCEPT !.await = "returned"]
  /\ UNCHANGED <<coreVars, nuVars, crVars, lkVars, psVars, anVars, feVars, tpPending, tpLog>>

NextTestPage ==
  \/ PageOpened
  \/ \E k \in 1..Len(Testers) : TesterSettles(k)
  \/ TesterTimesOut
  \/ PageClosed

SpecTestPage == InitTestPage /\ [][NextTestPage]_vars

(* ---------------- the web client on its own ---------------- *)
\* tryGetReport(24)
POLL_ATTEMPTS == 24

\* GET /api/scan/:scanId/report for a scan the store holds: the HTTP status and
\* the JSON body.
reportResponse(status) ==
  IF status = "running"
  THEN [code |-> 202, kind |-> "running", error |-> "", message |-> "Scan still in progress"]
  ELSE IF status = "error"
  THEN [code |-> 500, kind |-> "error", error |-> "Scan timed out after 5 minutes", message |-> ""]
  ELSE [code |-> 200, kind |-> "report", error |-> "", message |-> ""]

\* fetch() rejects: no response at all.
FetchRejected == [code |-> 0, kind |-> "none", error |-> "", message |-> ""]

\* Response.ok
resOk(res) == 200 <= res.code /\ res.code <= 299

\* getReport: `if (!res.ok) throw new Error(data.error || 'Failed to fetch
\* report'); return data`.  A rejected fetch throws its own error.
apiGetReport(res) ==
  IF res = FetchRejected
  THEN [resolved |-> FALSE, data |-> "none", message |-> "Failed to fetch"]
  ELSE IF ~resOk(res)
  THEN [resolved |-> FALSE, data |-> "none",
        message |-> IF res.error # "" THEN res.error ELSE "Failed to fetch report"]
  ELSE [resolved |-> TRUE, data |-> res.kind, message |-> ""]

\* err.message.includes('still in progress')
stillRunning(message) == message \in {"Scan still in progress"}

\* What the backend answers when the report is fetched, or no answer.
FeAnswers == {reportResponse(feScan), FetchRejected}

\* executeScan has started a scan: setState({ phase: 'scanning', scanId,
\* progress: [] }) and connectProgress has opened the EventSource.
InitClient ==
  /\ IdleCore
  /\ IdleNormalize
  /\ IdleCrawler
  /\ IdleLinkTester
  /\ IdleFanOut
  /\ IdleTestPage
  /\ IdleAnalytics
  /\ feScan = "running"
  /\ fePhase = "scanning"
  /\ feReport = "none"
  /\ feStream = "open"
  /\ feSeen = 0
  /\ feFinal = "none"
  /\ fePoll = [pc |-> "idle", attemptsLeft |-> 0]

\* onProgress's setState: `if (prev.phase !== 'scanning') return prev`, else the
\* event is appended to progress.
progressAppended == IF fePhase = "scanning" THEN feSeen + 1 ELSE feSeen

\* A progress event below 100 of the running scan arrives on the stream.
ProgressArrives ==
  /\ feScan = "running"
  /\ feStream = "open"
  /\ feSeen < MaxFeEvents
  /\ feSeen' = progressAppended
  /\ UNCHANGED <<coreVars, nuVars, crVars, lkVars, psVars, tpVars, anVars,
                 feScan, fePhase, feReport, feStream, feFinal, fePoll>>

\* The scan ends on the backend.  A completed scan has pushed its progress-100
\* event, which is on its way on an open stream.
ScanEnds(status) ==
  /\ feScan = "running"
  /\ feScan' = status
  /\ feFinal' = IF status = "complete" /\ feStream = "open" THEN "inFlight" ELSE feFinal
  /\ UNCHANGED <<coreVars, nuVars, crVars, lkVars, psVars, tpVars, anVars,
                 fePhase, feReport, feStream, feSeen, fePoll>>

\* The progress-100 event arrives: it is appended and the 500 ms timer is set.
CompleteArrives ==
  /\ feFinal = "inFlight"
  /\ feStream = "open"
  /\ feSeen' = progressAppended
  /\ feFinal' = "timer"
  /\ UNCHANGED <<coreVars, nuVars, crVars, lkVars, psVars, tpVars, anVars,
                 feScan, fePhase, feReport, feStream, fePoll>>

\* The 500 ms timer fires and its getReport settles.
FinalFetch(res) ==
  /\ feFinal = "timer"
  /\ feFinal' = "done"
  /\ LET got == apiGetReport(res)
     IN IF got.resolved
        THEN fePhase' = "report" /\ feReport' = got.data
        ELSE fePhase' = "error" /\ feReport' = "none"
  /\ UNCHANGED <<coreVars, nuVars, crVars, lkVars, psVars, tpVars, anVars,
                 feScan, feStream, feSeen, fePoll>>

\* eventSource.onerror: onError('Connection to server lost') calls
\* tryGetReport(24), whose getReport is sent; the EventSource is closed, and an
\* event on its way is lost.
StreamDrops ==
  /\ feStream = "open"
  /\ feStream' = "closed"
  /\ fePoll' = [pc |-> "fetch", attemptsLeft |-> POLL_ATTEMPTS]
  /\ feFinal' = IF feFinal = "inFlight" THEN "none" ELSE feFinal
  /\ UNCHANGED <<coreVars, nuVars, crVars, lkVars, psVars, tpVars, anVars,
                 feScan, fePhase, feReport, feSeen>>

\* The getReport of tryGetReport settles.  `.then` enters the report state with
\* what getReport returned; `.catch` tries again after 5 s when the error says
\* 'still in progress' and attempts are left (the next getReport is then the
\* one pending), and enters the error state otherwise.
ReportAnswered(res) ==
  /\ fePoll.pc = "fetch"
  /\ LET got == apiGetReport(res)
     IN IF got.resolved
        THEN /\ fePhase' = "report"
             /\ feReport' = got.data
             /\ fePoll' = [fePoll EXCEPT !.pc = "done"]
        ELSE IF stillRunning(got.message) /\ fePoll.attemptsLeft > 0
        THEN /\ fePoll' = [fePoll EXCEPT !.attemptsLeft = @ - 1]
             /\ UNCHANGED <<fePhase, feReport>>
        ELSE /\ fePhase' = "error"
             /\ feReport' = "none"
             /\ fePoll' = [fePoll EXCEPT !.pc = "done"]
  /\ UNCHANGED <<coreVars, nuVars, crVars, lkVars, psVars, tpVars, anVars,
                 feScan, feStream, feSeen, feFinal>>

NextClient ==
  \/ ProgressArrives
  \/ \E status \in {"complete", "error"} : ScanEnds(status)
  \/ CompleteArrives
  \/ \E res \in FeAnswers : FinalFetch(res)
  \/ StreamDrops
  \/ \E res \in FeAnswers : ReportAnswered(res)

SpecClient == InitClient /\ [][NextClient]_vars

\* The life of one scan: the pipeline against its whole-scan timer.
Next ==
  \/ \E url \in RequestUrls : scans = <<>> /\ PostScan(url)
  \/ \E s \in ScanIds : CrawlFound(s)
  \/ \E s \in ScanIds : CrawlDone(s)
  \/ \E s \in ScanIds, ok \in BOOLEAN : LaunchBrowser(s, ok)
  \/ \E s \in ScanIds, outcome \in TesterOutcomes \cup DriverFailures :
       \E result \in TesterResults(run[s].k, run[s].i + 1) : RunTester(s, outcome, result)
  \/ \E s \in ScanIds, ok \in BOOLEAN : CloseBrowser(s, ok)
  \/ \E s \in ScanIds, apiKey \in BOOLEAN, saved \in 0..MaxBugs :
       \E pages \in SUBSET (1..MaxDiscovered) : \E replies \in [pages -> ApiReplies] :
         PromptsDone(s, apiKey, replies, saved)
  \/ \E s \in ScanIds : ScanSettled(s)
  \/ \E s \in ScanIds : TimerFire(s)

Spec == InitFresh /\ [][Next]_vars

\* One scan with listeners on its progress stream.
NextProgress ==
  \/ \E url \in RequestUrls : scans = <<>> /\ PostScan(url)
  \/ \E s \in ScanIds : Subscribe(s)
  \/ \E l \in DOMAIN subs : Disconnect(l)
  \/ \E s \in ScanIds : CrawlFound(s)
  \/ \E s \in ScanIds : CrawlDone(s)
  \/ \E s \in ScanIds, ok \in BOOLEAN : LaunchBrowser(s, ok)
  \/ \E s \in ScanIds, outcome \in TesterOutcomes \cup DriverFailures :
       \E result \in TesterResults(run[s].k, run[s].i + 1) : RunTester(s, outcome, result)
  \/ \E s \in ScanIds, ok \in BOOLEAN : CloseBrowser(s, ok)
  \/ \E s \in ScanIds, apiKey \in BOOLEAN, saved \in 0..MaxBugs :
       \E pages \in SUBSET (1..MaxDiscovered) : \E replies \in [pages -> ApiReplies] :
         PromptsDone(s, apiKey, replies, saved)
  \/ \E s \in ScanIds : ScanSettled(s)
  \/ \E s \in ScanIds : TimerFire(s)

SpecProgress == InitFresh /\ [][NextProgress]_vars

\* The registry over successive scans of sites of at most one page, without
\* defects: start requests against running, finished and timed-out pipelines.
NextRegistry ==
  \/ \E url \in RequestUrls : PostScan(url)
  \/ \E s \in ScanIds : run[s].found = 0 /\ CrawlFound(s)
  \/ \E s \in ScanIds : CrawlDone(s)
  \/ \E s \in ScanIds, ok \in BOOLEAN : LaunchBrowser(s, ok)
  \/ \E s \in ScanIds, outcome \in {"ok", "openFailed"} : RunTester(s, outcome, <<>>)
  \/ \E s \in ScanIds, ok \in BOOLEAN : CloseBrowser(s, ok)
  \/ \E s \in ScanIds : PromptsDone(s, FALSE, <<>>, 0)
  \/ \E s \in ScanIds : ScanSettled(s)
  \/ \E s \in ScanIds : TimerFire(s)

SpecRegistry == InitFresh /\ [][NextRegistry]_vars

\* The registry with the event loop's guarantees: a timer whose delay has passed
\* fires, and the reactions of a settled promise run.  No step of the pipeline
\* (crawl, browser, tester, external generator) is required to ever return.
Fairness ==
  \A s \in 1..MaxScans : WF_vars(TimerFire(s)) /\ WF_vars(ScanSettled(s))

SpecLive == SpecRegistry /\ Fairness

(* ======================= claims ======================= *)
NonDecreasing(evs) ==
  \A a, b \in DOMAIN evs : a < b => evs[a].progress <= evs[b].progress

\* C1: within one scan the progress values of the events published through
\* runScan's progress callback, in publication order, never decrease.
C1_ProgressNonDecreasing == \A s \in ScanIds : NonDecreasing(run[s].published)

Got100(l) == \E j \in DOMAIN subs[l].got : subs[l].got[j].progress = CompleteProgress

\* C2: a listener that has received the progress = 100 event of a scan finds that
\* Scan complete, and the report endpoint answers with the report.
C2_CompleteEventAfterReportReady ==
  \A l \in DOMAIN subs :
    Got100(l) =>
      /\ scans[subs[l].scan].status = "complete"
      /\ getReport(subs[l].scan).code = 200

\* C3: a Scan leaves running at most once: once it is complete or error, its
\* status, report and error message never change, whatever the pipeline and the
\* whole-scan timer do afterwards; a complete Scan holds a report, an error Scan
\* a message and no report.
C3_TerminalIsFinal ==
  [][\A s \in ScanIds :
       /\ scans[s].status # "running" =>
            /\ scans'[s].status = scans[s].status
            /\ scans'[s].report = scans[s].report
            /\ scans'[s].error = scans[s].error
       /\ scans'[s].status \in {"running", "complete", "error"}
       /\ scans'[s].status = "running" =>
            scans'[s].report = NoReport /\ scans'[s].error = NoError
       /\ scans'[s].status = "complete" =>
            scans'[s].report # NoReport /\ scans'[s].error = NoError
       /\ scans'[s].status = "error" =>
            scans'[s].report = NoReport /\ scans'[s].error # NoError]_vars

\* C3 witness: a Scan failed by the timer whose pipeline afterwards returned a report.
C3_Witness ==
  \E s \in ScanIds :
    /\ scans[s].status = "error"
    /\ run[s].timer = "fired"
    /\ run[s].pc = "done"
    /\ run[s].inner = "resolved"

Running(sc) == {id \in DOMAIN sc : sc[id].status = "running"}

\* C4: at most one Scan is running; while one is running a start request is
\* answered 429 (400 for a bad URL) and no Scan is created.
C4_OneRunningAtMost ==
  [][/\ Cardinality(Running(scans')) <= 1
     /\ hasRunning(scans) =>
          /\ Len(scans') = Len(scans)
          /\ \A url \in RequestUrls :
               postScanResponse(url) = IF url # NoUrl /\ validateUrl(url) THEN 429 ELSE 400]_vars

\* C4 witness: a second Scan is running while the pipeline of the first one, which
\* timed out, is still at work.
C4_Witness ==
  /\ Len(scans) >= 2
  /\ scans[1].status # "running"
  /\ scans[2].status = "running"
  /\ run[1].inner = "pending"

\* C5: when the whole-scan timer fires before the pipeline has settled, the Scan
\* becomes error with the timeout message; a Scan that timed out never holds a
\* report and the report endpoint never returns one for it, also after the
\* pipeline has finished building one.
C5_TimeoutNeverReports ==
  [][\A s \in ScanIds :
       /\ (run[s].timer = "armed" /\ run'[s].timer = "fired" /\ run[s].inner = "pending") =>
            /\ scans'[s].status = "error"
            /\ scans'[s].error = SCAN_TIMEOUT_MESSAGE
       /\ scans[s].error = SCAN_TIMEOUT_MESSAGE =>
            /\ scans'[s].status = "error"
            /\ scans'[s].error = SCAN_TIMEOUT_MESSAGE
            /\ scans'[s].report = NoReport
            /\ getReport(s)'.code = 500
            /\ getReport(s)'.report = NoReport]_vars

\* C5 witness: the timer fired first and the pipeline then returned its report.
C5_Witness ==
  \E s \in ScanIds :
    /\ scans[s].error = SCAN_TIMEOUT_MESSAGE
    /\ run[s].inner = "resolved"
    /\ getReport(s).code = 500

\* C6: once a Scan is in error, its listeners receive no further event.
C6_NoEventAfterError ==
  [][\A l \in DOMAIN subs :
       scans[subs[l].scan].status = "error" => subs'[l].got = subs[l].got]_vars

TesterFailures == {"threw", "timedOut"}

HasType(bugs, t) == \E j \in DOMAIN bugs : bugs[j].type = t

\* C7: after tester k of a page threw or timed out, the page holds no defect of
\* that tester, no exception is pending, and either the next tester of the page is
\* up or (k the last one) the page has its PageRecord.
C7_TesterFailureIsolated ==
  \A s \in ScanIds :
    LET r == run[s]
    IN (r.last.outcome \in TesterFailures /\ r.pc # "done") =>
         /\ ~r.failed
         /\ IF r.last.tester < Len(Testers)
            THEN /\ r.pc = "test"
                 /\ r.i + 1 = r.last.page
                 /\ r.k = r.last.tester + 1
                 /\ ~HasType(r.bugs, TesterType[r.last.tester])
            ELSE /\ Len(r.pageReports) >= r.last.page
                 /\ r.pageReports[r.last.page].url = r.last.page
                 /\ ~HasType(r.pageReports[r.last.page].bugs, TesterType[r.last.tester])

\* C7 witness: the pipeline returned its report although the last tester of its
\* last page timed out, another tester's defect being in the report.
C7_Witness ==
  \E s \in ScanIds :
    /\ run[s].pc = "returned"
    /\ run[s].last.outcome = "timedOut"
    /\ run[s].result.summary.totalBugs > 0

\* C8: when the page driver fails for a page outside a tester, an empty PageRecord
\* is recorded for the page and no exception is left pending.
C8_DriverFailureRecordsEmptyPage ==
  \A s \in ScanIds :
    LET r == run[s]
    IN (r.last.outcome \in DriverFailures /\ r.pc # "done") =>
         /\ ~r.failed
         /\ r.pc # "threw"
         /\ Len(r.pageReports) >= r.last.page
         /\ r.pageReports[r.last.page].bugs = <<>>

ReportBugs(report) == Flatten([p \in DOMAIN report.pages |-> report.pages[p].bugs])

\* C9: in every built report the three severity counts, the six per-type counts,
\* totalBugs and the pages' defect lists all add up to the same number, and byType
\* has exactly the six defect types.
C9_SummaryCountsAgree ==
  rbPc = "built" =>
    LET sm == rbReport.summary
        perPage == SumSeq([p \in DOMAIN rbReport.pages |-> Len(rbReport.pages[p].bugs)])
        perType == SumSeq([t \in DOMAIN ALL_BUG_TYPES |-> sm.byType[ALL_BUG_TYPES[t]]])
    IN /\ DOMAIN sm.byType = Range(ALL_BUG_TYPES)
       /\ Cardinality(DOMAIN sm.byType) = Len(ALL_BUG_TYPES)
       /\ sm.critical + sm.warnings + sm.info = sm.totalBugs
       /\ perType = sm.totalBugs
       /\ perPage = sm.totalBugs
       /\ \A t \in Range(ALL_BUG_TYPES) :
            sm.byType[t] = Cardinality({j \in DOMAIN ReportBugs(rbReport) :
                                          ReportBugs(rbReport)[j].type = t})

\* C9 witness: a report over two pages with defects of the three severities.
C9_Witness ==
  /\ rbPc = "built"
  /\ Len(rbReport.pages) = 2
  /\ rbReport.summary.critical > 0
  /\ rbReport.summary.warnings > 0
  /\ rbReport.summary.info > 0

\* `${type}::${title}::${details}` read off a defect, written out once more.
FingerprintOf(b) == <<b.type, "::">> \o b.title \o <<"::">> \o b.details

RbInputBugs == Flatten([p \in DOMAIN rbPages |-> rbPages[p].bugs])

\* C10: no two defects of a report have the same fingerprint; every fingerprint of
\* the input is kept once, and the defect kept is the input's first one with that
\* fingerprint (page order, then discovery order), on the page it was found on.
C10_DedupKeepsFirst ==
  rbPc = "built" =>
    LET out == ReportBugs(rbReport)
        in == RbInputBugs
        first(fp) == CHOOSE j \in DOMAIN in :
                       /\ FingerprintOf(in[j]) = fp
                       /\ \A h \in DOMAIN in : FingerprintOf(in[h]) = fp => j <= h
    IN /\ \A a, b \in DOMAIN out :
            FingerprintOf(out[a]) = FingerprintOf(out[b]) => a = b
       /\ {FingerprintOf(in[j]) : j \in DOMAIN in} = {FingerprintOf(out[a]) : a \in DOMAIN out}
       /\ \A p \in DOMAIN rbReport.pages :
            \A a \in DOMAIN rbReport.pages[p].bugs :
              LET b == rbReport.pages[p].bugs[a]
                  src == in[first(FingerprintOf(b))]
              IN /\ src.page = p
                 /\ b.page = p
                 /\ [b EXCEPT !.id = NoId] = src

\* C10 witness: a defect of the second page was dropped because the first page had
\* one with the same fingerprint but other title and details.
C10_Witness ==
  /\ rbPc = "built"
  /\ Len(rbPages) = 2
  /\ \E a \in DOMAIN rbPages[1].bugs, b \in DOMAIN rbPages[2].bugs :
       /\ FingerprintOf(rbPages[1].bugs[a]) = FingerprintOf(rbPages[2].bugs[b])
       /\ rbPages[1].bugs[a].title # rbPages[2].bugs[b].title
  /\ Len(rbReport.pages[2].bugs) < Len(rbPages[2].bugs)

(* ---- C11 ---- *)
\* C11: every defect of the report runScan returns has a non-empty identifier that
\* no other defect of the report has, and a non-empty remediation hint, whether the
\* hint came from the cache, the external generator or a template.
C11_DefectsIdentifiedAndHinted ==
  fsOut # NoOutcome =>
    LET bugs == ReportBugs(fsOut.report)
    IN \A i \in DOMAIN bugs :
         /\ bugs[i].id # NoId
         /\ bugs[i].fixPrompt # NoPrompt
         /\ \A j \in DOMAIN bugs : i # j => bugs[i].id # bugs[j].id

\* A report of three defects: one hint from the cache, one from the external
\* generator and one from a template.
C11_Witness ==
  /\ fsOut # NoOutcome
  /\ Len(ReportBugs(fsOut.report)) = 3
  /\ fsOut.promptResult.cacheHits = 1
  /\ ~fsOut.promptResult.usedFallback
  /\ \E b \in Range(ReportBugs(fsOut.report)) : b.fixPrompt.tier = "ai"
  /\ \E b \in Range(ReportBugs(fsOut.report)) :
       b.fixPrompt.tier = "template" /\ KeyOf(b) # KeyOf(SeenBefore)

(* ---- C12 ---- *)
\* Where in bugs the first defect with fingerprint fp stands (0: nowhere).
FirstIndex(bugs, fp) ==
  IF \E i \in DOMAIN bugs : bugFingerprint(bugs[i]) = fp
  THEN CHOOSE i \in DOMAIN bugs :
         /\ bugFingerprint(bugs[i]) = fp
         /\ \A j \in 1..(i - 1) : bugFingerprint(bugs[j]) # fp
  ELSE 0

\* C12: within each page of a built report the defects are ordered critical,
\* warning, info, and defects of equal severity stand in the order in which the
\* page's input listed them.
C12_SortedStable ==
  rbPc = "built" =>
    \A p \in DOMAIN rbReport.pages :
      LET out == rbReport.pages[p].bugs
          in == rbPages[p].bugs
      IN \A i, j \in DOMAIN out :
           i < j =>
             /\ SEVERITY_ORDER[out[i].severity] <= SEVERITY_ORDER[out[j].severity]
             /\ out[i].severity = out[j].severity =>
                  FirstIndex(in, bugFingerprint(out[i])) < FirstIndex(in, bugFingerprint(out[j]))

\* A page listed info, warning, warning: the info defect moved to the end and the
\* two warnings kept their order.
C12_Witness ==
  /\ rbPc = "built"
  /\ \E p \in DOMAIN rbReport.pages :
       /\ Len(rbPages[p].bugs) = 3
       /\ rbPages[p].bugs[1].severity = "info"
       /\ rbPages[p].bugs[2].severity = "warning"
       /\ rbPages[p].bugs[3].severity = "warning"
       /\ Len(rbReport.pages[p].bugs) = 3
       /\ rbReport.pages[p].bugs[3].severity = "info"

(* ---- C13 ---- *)
\* C13: in every tier generateFixPrompts returns a list as long as its input in
\* which position i holds input defect i, with only fixPrompt changed.
C13_SameDefectsSameOrder ==
  \A c \in DOMAIN pgCalls :
    /\ Len(pgCalls[c].bugs) = Len(pgBugs)
    /\ \A i \in DOMAIN pgBugs :
         pgCalls[c].bugs[i] = [pgBugs[i] EXCEPT !.fixPrompt = pgCalls[c].bugs[i].fixPrompt]

(* ---- C14 ---- *)
\* C14: a defect whose key is in the cache when generateFixPrompts is called gets
\* the cached hint verbatim and is not among the defects sent on to the external
\* generator or the templates; cacheHits counts these defects and cacheHits +
\* cacheMisses is the length of the input.
C14_CachedHintVerbatim ==
  \A c \in DOMAIN pgCalls :
    LET call == pgCalls[c]
        present == {i \in DOMAIN pgBugs : KeyOf(pgBugs[i]) \in DOMAIN call.before}
    IN /\ \A i \in present :
            /\ call.bugs[i] = [pgBugs[i] EXCEPT !.fixPrompt = call.before[KeyOf(pgBugs[i])]]
            /\ pgBugs[i] \notin Range(call.uncachedBugs)
       /\ call.cacheHits = Cardinality(present)
       /\ call.cacheHits + call.cacheMisses = Len(pgBugs)

\* A call with a credential in which one defect is served from the cache file and
\* another is not cached.
C14_Witness ==
  \E c \in DOMAIN pgCalls :
    /\ pgCalls[c].apiKey
    /\ pgCalls[c].cacheHits >= 1
    /\ pgCalls[c].cacheMisses >= 1

(* ---- C15 ---- *)
\* C15: after a call, the key of every defect that was not cached holds a hint
\* generated for that key in the call, and a following call without a credential
\* on the same defects has cacheHits = input length, cacheMisses = 0 and
\* usedFallback = false.
C15_NewHintsAreCached ==
  \A c \in DOMAIN pgCalls :
    LET call == pgCalls[c]
    IN /\ \A b \in Range(call.bugs) :
            /\ KeyOf(b) \in DOMAIN call.after
            /\ KeyOf(b) \notin DOMAIN call.before =>
                 \E n \in Range(call.bugs) :
                   KeyOf(n) = KeyOf(b) /\ call.after[KeyOf(b)] = n.fixPrompt
       /\ (c > 1 /\ ~call.apiKey) =>
            /\ call.cacheHits = Len(pgBugs)
            /\ call.cacheMisses = 0
            /\ ~call.usedFallback

\* A first call that generated an external and a template hint, followed by a
\* call without a credential.
C15_Witness ==
  /\ Len(pgCalls) = 2
  /\ pgCalls[1].cacheMisses >= 2
  /\ \E b \in Range(pgCalls[1].bugs) : b.fixPrompt.tier = "ai"
  /\ \E b \in Range(pgCalls[1].bugs) :
       b.fixPrompt.tier = "template" /\ KeyOf(b) \notin DOMAIN pgCalls[1].before
  /\ ~pgCalls[2].apiKey
  /\ pgCalls[2].cacheHits >= 2

C18_NormalizeIdempotent ==
  nuOut # <<>> => nuOut[2] = nuOut[1]

(* ---- C19 ---- *)
\* C19: with several page loads handled at a time, the crawler's output never
\* holds two pages with the same normalized final URL, whatever the interleaving
\* of request handlers and failed-request handlers; a handler that got past
\* recording its page leaves that URL visited.
C19_NoDuplicatePages ==
  /\ \A i, j \in DOMAIN crPages : i # j => crPages[i] # crPages[j]
  /\ Range(crPages) \subseteq crVisited
  /\ \A u \in DOMAIN crActive : crActive[u] = "enqueue" => crSite[u] \in crVisited

\* Two requests that redirect to the same URL are past recording the page at the
\* same time, one of them on its second attempt, and the output holds the URL.
C19_Witness ==
  \E u, v \in DOMAIN crActive :
    /\ u # v
    /\ crActive[u] = "enqueue"
    /\ crActive[v] = "enqueue"
    /\ crSite[u] = crSite[v]
    /\ crSite[u] \in Range(crPages)
    /\ u \in crRetried

(* ---- C20 ---- *)
\* The HEAD -> GET check of the claim: BROKEN when HEAD returns 404 or 410, or
\* when HEAD is inconclusive and GET returns 404 or 410 or fails with
\* ERR_NAME_NOT_RESOLVED or ERR_CONNECTION_REFUSED.
HeadInconclusive(head) ==
  ~(head.error = "none" /\ (head.status < 400 \/ head.status \in {404, 410}))

IsBroken(head, get) ==
  \/ head.error = "none" /\ head.status \in {404, 410}
  \/ /\ HeadInconclusive(head)
     /\ \/ get.error = "none" /\ get.status \in {404, 410}
        \/ get.error \in {"ERR_NAME_NOT_RESOLVED", "ERR_CONNECTION_REFUSED"}

PlaceIn(s, l) == IF l \in Range(s) THEN CHOOSE i \in DOMAIN s : s[i] = l ELSE 0

\* C21: pushProgress invokes the subscribers synchronously and in subscription
\* order, each at most once; a subscriber that is still subscribed when its turn
\* comes is invoked, and a subscriber that was removed, between pushes or by
\* another subscriber's callback during the push, receives nothing from then on.
C21_PushInOrderNoneAfterRemoval ==
  /\ psLast # NoPush =>
       LET calls == psFan.calls
       IN /\ \A i, j \in DOMAIN calls :
               i < j => 0 < PlaceIn(psLast.before, calls[i])
                        /\ PlaceIn(psLast.before, calls[i]) < PlaceIn(psLast.before, calls[j])
          /\ \A l \in Range(psLast.before) :
               l \in Range(psLast.after) => l \in Range(calls)
          /\ \A l \in Range(calls) :
               psFan.got[l] # <<>> /\ psFan.got[l][Len(psFan.got[l])] = psLast.event
  /\ \A l \in DOMAIN psFan.got :
       psFan.frozen[l] # StillSubscribed => Len(psFan.got[l]) = psFan.frozen[l]

\* A push to three subscribers during which the first one's callback removed the
\* second: the third received the event, the second did not.
C21_Witness ==
  /\ psLast # NoPush
  /\ psLast.before = <<1, 2, 3>>
  /\ psLast.after = <<1, 3>>
  /\ psFan.calls = <<1, 3>>
  /\ psFan.got[2] = <<>>
  /\ psFan.got[3] = <<psLast.event>>

(* ---- C22 ---- *)
\* The scan_complete records emitted for scan s.
RecordsOf(s) == {i \in DOMAIN anLog : anLog[i].scan = s}

\* C22: for every scan that reached status complete exactly one scan_complete
\* record was emitted, and none for a scan that ended in error.
C22_OneRecordPerCompletedScan ==
  \A s \in ScanIds :
    /\ scans[s].status = "complete" => Cardinality(RecordsOf(s)) = 1
    /\ scans[s].status = "error" => RecordsOf(s) = {}

(* ---- C23 ---- *)
\* C23: every Scan that is created eventually leaves the running state, whatever
\* the pipeline does or fails to do, and whenever a scan is running a start
\* request with a valid URL is eventually accepted again.
C23_EveryScanEnds ==
  /\ \A s \in 1..MaxScans :
       (s \in ScanIds /\ scans[s].status = "running")
         ~> (s \in ScanIds /\ scans[s].status # "running")
  /\ hasRunning(scans) ~> ~hasRunning(scans)

\* A scan ended by its timer while its pipeline was still waiting for a tester,
\* and a later start request was accepted.
C23_Witness ==
  /\ Len(scans) = 2
  /\ scans[1].status = "error"
  /\ scans[1].error = SCAN_TIMEOUT_MESSAGE
  /\ run[1].pc = "test"

(* ---- C24 ---- *)
\* C24: when the whole-scan timer puts a Scan whose test phase is under way into
\* error state, from that step on no browser of the scan is open and no tester of
\* the scan is using one.
C24_BrowserReleasedOnTimeout ==
  [][\A s \in ScanIds :
       (/\ testerActive(run[s])
        /\ scans[s].status = "running"
        /\ scans'[s].status = "error"
        /\ scans'[s].error = SCAN_TIMEOUT_MESSAGE)
         => ~browserOpen(run'[s]) /\ ~testerActive(run'[s])]_vars

(* ---- C26 ---- *)
\* C26: at any time at most one scan pipeline is executing in the process, also
\* after a Scan was ended by its whole-scan timer.
C26_OnePipelineAtATime ==
  Cardinality({s \in ScanIds : pipelineWorking(run[s])}) <= 1

(* ---- C25 ---- *)
\* C25: within one page at most one tester is executing at any moment, also after
\* a tester has hit its timeout: when the next tester starts, the timed-out one
\* is no longer running.
C25_TestersSerialized == Cardinality(tpPending) <= 1

(* ---- C27 ---- *)
\* The pages of the call's batches, in the order the batches are sent.
BatchOrder(call) == PagesInOrder(call.uncachedBugs, {})

\* The positions of the call's result that hold a defect that was not cached.
Misses(call) == {i \in DOMAIN call.bugs : KeyOf(call.bugs[i]) \notin DOMAIN call.before}

\* The batches whose reply has no JSON array or an array of another length than
\* the batch.
Unusable(call) ==
  {p \in Range(BatchOrder(call)) : call.replies[p] \in {"noJson", "short", "long"}}

\* C27: when no external call fails, a batch whose reply cannot be parsed or has
\* the wrong length gets template hints for all its defects; usedFallback stays
\* false if some other batch succeeded and is true if every batch failed this way.
C27_UnusableReplyFallsBackPerBatch ==
  \A c \in DOMAIN pgCalls :
    LET call == pgCalls[c]
    IN (/\ call.apiKey
        /\ call.uncachedBugs # <<>>
        /\ \A p \in Range(BatchOrder(call)) : call.replies[p] # "throws")
         => /\ \A i \in Misses(call) :
                 call.bugs[i].page \in Unusable(call)
                   => call.bugs[i].fixPrompt.tier = "template"
            /\ call.usedFallback <=> Unusable(call) = Range(BatchOrder(call))

(* ---- C28 ---- *)
\* The batches answered before the first external call that failed.
Answered(call) ==
  LET order == BatchOrder(call)
  IN {order[j] : j \in {j \in DOMAIN order :
                          \A h \in 1..j : call.replies[order[h]] # "throws"}}

\* C28: when the external call fails for a batch, usedFallback is raised and the
\* defects of the batches answered before it keep their externally generated
\* hints, in the result and (under a key no other defect of the call has) in the
\* cache.
C28_FailedBatchAloneFallsBack ==
  \A c \in DOMAIN pgCalls :
    LET call == pgCalls[c]
    IN (/\ call.apiKey
        /\ \E p \in Range(BatchOrder(call)) : call.replies[p] = "throws")
         => /\ call.usedFallback
            /\ \A i \in Misses(call) :
                 (call.bugs[i].page \in Answered(call)
                  /\ call.replies[call.bugs[i].page] = "full")
                   => /\ call.bugs[i].fixPrompt.tier = "ai"
                      /\ (\A j \in DOMAIN call.bugs :
                            KeyOf(call.bugs[j]) = KeyOf(call.bugs[i]) => j = i)
                           => call.after[KeyOf(call.bugs[i])].tier = "ai"

(* ---- C29 ---- *)
\* C29: every page of the crawler's output has a URL whose host is the start
\* URL's host, also when the start URL or a followed URL of that host redirects
\* to another host before it loads.
C29_PagesOnSeedHost ==
  \A i \in DOMAIN crPages : hostname(crPages[i]) = hostname(startUrl)

(* ---- C30 ---- *)
\* C30: after the progress stream dropped while the scan was running, the web
\* client keeps polling as long as the backend answers 202, and is in the
\* report state only with the report of a completed scan, never with the body
\* the backend sends for a scan that is still in progress.
C30_ReportStateHoldsAReport ==
  (feStream = "closed" /\ fePhase = "report") => feReport = "report"

============================================================================
